---- MODULE Spec2Model ----
(***************************************************************************)
(* A model of the suffix stack (suffstack.hpp / suffstack.cc): the node    *)
(* arena, the indexed string, the tree stack and the naive stack that the  *)
(* tests use as an oracle.                                                 *)
(*                                                                         *)
(* Handles.  A `const node_or_leaf *` is modelled as a natural number.     *)
(* A leaf of tree_stack<int> is produced by hide_in_pointer, which copies  *)
(* the int into the pointer: the leaf v IS the pointer value v, so the     *)
(* leaf 0 is the null pointer.  Interned nodes live in the arena's         *)
(* unordered_set; their addresses are fresh, stable and never equal to a   *)
(* small int, which the model renders as NodeBase + allocation number.     *)
(*                                                                         *)
(* C++ vectors are 0-based; the sequences here are 1-based, so the C++     *)
(* trees[b] is At(trees, b) == trees[b + 1].                               *)
(***************************************************************************)
EXTENDS Integers, Sequences, FiniteSets, TLC

\* ---------------------------------------------------------------- bounds
MaxLeaf == 1
MaxLen == 3
MaxSize == 7
MaxArenas == 3
MaxInterns == 3
MaxOps == 4
MaxAllocs == 2
MaxAssoc == 15
MaxBit == 2
MaxBy == 2
MaxShared == 4

\* ------------------------------------------------------------- constants
HashMul == 27
CtzOfZero == 64

nullptr == 0
Leaves == 0 .. MaxLeaf
NodeBase == HashMul + MaxLeaf + 1

\* --------------------------------------------------------------- helpers
At(seq, i) == seq[i + 1]

SetAt(seq, i, v) == [seq EXCEPT ![i + 1] = v]

\* std::vector(n, v): n copies of v
RECURSIVE Fill(_, _)
Fill(n, v) == IF n = 0 THEN <<>> ELSE Append(Fill(n - 1, v), v)

\* std::vector::resize(len): cut, or grow with value-initialised elements
Resize(seq, len) ==
  IF len <= Len(seq) THEN SubSeq(seq, 1, len)
  ELSE seq \o Fill(len - Len(seq), nullptr)

RECURSIVE Reverse(_)
Reverse(seq) ==
  IF seq = <<>> THEN <<>> ELSE Append(Reverse(Tail(seq)), Head(seq))

the_bit(bit) == 2 ^ bit

RECURSIVE bit_width(_)
bit_width(n) == IF n = 0 THEN 0 ELSE 1 + bit_width(n \div 2)

RECURSIVE countr_zero(_)
countr_zero(n) ==
  IF n = 0 THEN CtzOfZero
  ELSE IF n % 2 = 1 THEN 0
  ELSE 1 + countr_zero(n \div 2)

RECURSIVE BitAnd(_, _)
BitAnd(x, y) ==
  IF x = 0 \/ y = 0 THEN 0
  ELSE (x % 2) * (y % 2) + 2 * BitAnd(x \div 2, y \div 2)

RECURSIVE BitXor(_, _)
BitXor(x, y) ==
  IF x = 0 THEN y
  ELSE IF y = 0 THEN x
  ELSE ((x + y) % 2) + 2 * BitXor(x \div 2, y \div 2)

hide_in_pointer(t) == t

find_in_pointer(ptr) == ptr

\* ----------------------------------------------------------------- arena
\* An arena is [parent |-> index of the parent arena or 0, nodes |-> the
\* unordered_set<node> as the sequence of its elements in insertion order,
\* each [addr, lhs, rhs]].  `ars` is the sequence of all arenas alive.

NewArena(parent) == [parent |-> parent, nodes |-> <<>>]

Hash(lhs, rhs) == lhs * HashMul + rhs

NodeEq(e, lhs, rhs) == e.lhs = lhs /\ e.rhs = rhs

\* find that takes the first element of the key's bucket, without operator==
FindHashOnly(nodes, lhs, rhs) ==
  LET hits == {i \in 1 .. Len(nodes) :
                 Hash(nodes[i].lhs, nodes[i].rhs) = Hash(lhs, rhs)}
  IN IF hits = {} THEN 0 ELSE CHOOSE i \in hits : \A j \in hits : i <= j

\* unordered_set::find: the element of the key's bucket equal to the key;
\* 0 stands for end().
Find(nodes, lhs, rhs) ==
  LET hits == {i \in 1 .. Len(nodes) :
                 /\ Hash(nodes[i].lhs, nodes[i].rhs) = Hash(lhs, rhs)
                 /\ NodeEq(nodes[i], lhs, rhs)}
  IN IF hits = {} THEN 0 ELSE CHOOSE i \in hits : \A j \in hits : i <= j

RECURSIVE Allocated(_, _)
Allocated(ars, a) ==
  IF a = 0 THEN 0 ELSE Len(ars[a].nodes) + Allocated(ars, a - 1)

FreshAddr(ars) == NodeBase + Allocated(ars, Len(ars))

\* emplace that inserts without looking for an equal element
EmplaceNoDedup(ars, a, lhs, rhs) ==
  LET addr == FreshAddr(ars)
      nd == [addr |-> addr, lhs |-> lhs, rhs |-> rhs]
  IN [h |-> addr, ars |-> [ars EXCEPT ![a].nodes = Append(@, nd)]]

\* emplace into a set that drops what it held
EmplaceForgetful(ars, a, lhs, rhs) ==
  LET addr == FreshAddr(ars)
      nd == [addr |-> addr, lhs |-> lhs, rhs |-> rhs]
  IN [h |-> addr, ars |-> [ars EXCEPT ![a].nodes = <<nd>>]]

\* unordered_set::emplace(to_intern).first
Emplace(ars, a, lhs, rhs) ==
  LET own == Find(ars[a].nodes, lhs, rhs)
  IN IF own # 0
     THEN [h |-> ars[a].nodes[own].addr, ars |-> ars]
     ELSE LET addr == FreshAddr(ars)
              nd == [addr |-> addr, lhs |-> lhs, rhs |-> rhs]
          IN [h |-> addr,
              ars |-> [ars EXCEPT ![a].nodes = Append(@, nd)]]

\* intern that does not probe the parent
intern_own(ars, a, lhs, rhs) == Emplace(ars, a, lhs, rhs)

\* node_arena::intern
intern(ars, a, lhs, rhs) ==
  LET p == ars[a].parent
      found == IF p # 0 THEN Find(ars[p].nodes, lhs, rhs) ELSE 0
  IN IF p # 0 /\ found # 0
     THEN [h |-> ars[p].nodes[found].addr, ars |-> ars]
     ELSE Emplace(ars, a, lhs, rhs)

\* All nodes of all arenas, and the dereference of a node pointer.
AllNodes(ars) ==
  UNION {{ars[a].nodes[i] : i \in 1 .. Len(ars[a].nodes)} : a \in 1 .. Len(ars)}

IsNode(ars, h) == \E e \in AllNodes(ars) : e.addr = h

Deref(ars, h) == CHOOSE e \in AllNodes(ars) : e.addr = h

\* static_cast<const node *>(p)->lhs / ->rhs.  Casting a leaf (or null) to
\* a node and reading through it is undefined; Wild marks such a read.
Wild == 0 - 1

Lhs(ars, h) == IF IsNode(ars, h) THEN Deref(ars, h).lhs ELSE Wild

Rhs(ars, h) == IF IsNode(ars, h) THEN Deref(ars, h).rhs ELSE Wild

\* operator[] with the two children exchanged
ChildSwapped(ars, h, bit) == IF bit THEN Lhs(ars, h) ELSE Rhs(ars, h)

\* node::operator[](bool bit)
Child(ars, h, bit) == IF bit THEN Rhs(ars, h) ELSE Lhs(ars, h)

\* -------------------------------------------------------- indexed string
\* An indexed_string is its `assocs` vector: a sequence of splits
\* [left |-> nodes, right |-> nodes].

EmptySplit == [left |-> <<>>, right |-> <<>>]

\* indexed_string() = default
indexed_string_default == <<>>

\* indexed_string::size(): assocs.size() - 1 on a size_t
idx_size(assocs) == Len(assocs) - 1

idx_empty(assocs) == idx_size(assocs) = 0

\* association indexing from the front: assocs.begin()[on_right]
association_front(assocs, on_right) == assocs[on_right + 1]

\* indexed_string::association: assocs.rbegin()[on_right]
association(assocs, on_right) == assocs[Len(assocs) - on_right]

\* the single-leaf table with the two splits exchanged
indexed_string_leaf_swapped(leaf) ==
  << [left |-> <<leaf>>, right |-> <<>>], [left |-> <<>>, right |-> <<leaf>>] >>

\* indexed_string(const leaf_base *leaf)
indexed_string_leaf(leaf) ==
  << [left |-> <<>>, right |-> <<leaf>>], [left |-> <<leaf>>, right |-> <<>>] >>

\* The loop over sz of index_from, with the two ends of assocs exchanged.
RECURSIVE SzLoopMirrored(_, _, _, _)
SzLoopMirrored(assocs, paired, bit_m, sz) ==
  IF sz > idx_size(assocs) THEN assocs
  ELSE LET set == BitAnd(sz, bit_m) # 0
           offset == BitAnd(sz, bit_m - 1)
           li == Len(assocs) - sz
           ri == sz + 1
           lv == IF set THEN At(paired, offset) ELSE nullptr
           rv == IF set THEN paired[Len(paired) - offset] ELSE nullptr
           a1 == [assocs EXCEPT ![li].left = Append(@, lv)]
           a2 == [a1 EXCEPT ![ri].right = Append(@, rv)]
       IN SzLoopMirrored(a2, paired, bit_m, sz + 1)

\* The loop over sz of index_from, pushing nothing for a clear bit.
RECURSIVE SzLoopNoNull(_, _, _, _)
SzLoopNoNull(assocs, paired, bit_m, sz) ==
  IF sz > idx_size(assocs) THEN assocs
  ELSE LET set == BitAnd(sz, bit_m) # 0
           offset == BitAnd(sz, bit_m - 1)
           li == sz + 1
           ri == Len(assocs) - sz
           a1 == IF set THEN [assocs EXCEPT ![li].left = Append(@, At(paired, offset))]
                 ELSE assocs
           a2 == IF set
                 THEN [a1 EXCEPT ![ri].right = Append(@, paired[Len(paired) - offset])]
                 ELSE a1
       IN SzLoopNoNull(a2, paired, bit_m, sz + 1)

\* The loop over sz of index_from, for one bit.
RECURSIVE SzLoop(_, _, _, _)
SzLoop(assocs, paired, bit_m, sz) ==
  IF sz > idx_size(assocs) THEN assocs
  ELSE LET set == BitAnd(sz, bit_m) # 0
           offset == BitAnd(sz, bit_m - 1)
           li == sz + 1
           ri == Len(assocs) - sz
           lv == IF set THEN At(paired, offset) ELSE nullptr
           rv == IF set THEN paired[Len(paired) - offset] ELSE nullptr
           a1 == [assocs EXCEPT ![li].left = Append(@, lv)]
           a2 == [a1 EXCEPT ![ri].right = Append(@, rv)]
       IN SzLoop(a2, paired, bit_m, sz + 1)

\* The pairing loop of index_from: paired[i] = f.intern(paired[i], paired[i + bit_m])
RECURSIVE PairLoop(_, _, _, _, _, _)
PairLoop(ars, a, paired, bit_m, i, pairings) ==
  IF i >= pairings THEN [paired |-> paired, ars |-> ars]
  ELSE LET r == intern(ars, a, At(paired, i), At(paired, i + bit_m))
       IN PairLoop(r.ars, a, SetAt(paired, i, r.h), bit_m, i + 1, pairings)

RECURSIVE BitLoop(_, _, _, _, _)
BitLoop(ars, a, assocs, paired, bit) ==
  LET bit_m == the_bit(bit)
      filled == SzLoop(assocs, paired, bit_m, bit_m)
  IN IF the_bit(bit + 1) > idx_size(assocs)
     THEN [assocs |-> filled, ars |-> ars]
     ELSE LET pairings == Len(paired) - bit_m
              pl == PairLoop(ars, a, paired, bit_m, 0, pairings)
          IN BitLoop(pl.ars, a, filled, SubSeq(pl.paired, 1, pairings), bit + 1)

\* indexed_string::index_from(f, paired)
index_from(ars, a, paired) ==
  LET assocs == Fill(Len(paired) + 1, EmptySplit)
  IN IF Len(paired) = 0
     THEN [assocs |-> assocs, ars |-> ars]
     ELSE BitLoop(ars, a, assocs, paired, 0)

\* The loop of indexed_string_over: nodes.push_back(hide_in_pointer(leaf))
RECURSIVE HideLeaves(_)
HideLeaves(leaves) ==
  IF leaves = <<>> THEN <<>>
  ELSE <<hide_in_pointer(Head(leaves))>> \o HideLeaves(Tail(leaves))

\* indexed_string_over<T>(f, leaves)
indexed_string_over(ars, a, leaves) ==
  index_from(ars, a, HideLeaves(leaves))

\* indexed_string_over<T>(const T &t)
indexed_string_over_leaf(t) == indexed_string_leaf(hide_in_pointer(t))

\* compute_association without the fallback to the narrower mask
compute_association_halved(tree_size, string_size) ==
  BitAnd(tree_size, (the_bit(bit_width(string_size)) - 1) \div 2)

compute_association_masked(tree_size, string_size) ==
  BitAnd(tree_size, the_bit(bit_width(string_size)) - 1)

\* compute_association(tree_size, string_size)
compute_association(tree_size, string_size) ==
  LET mask == the_bit(bit_width(string_size)) - 1
      masked_size == BitAnd(tree_size, mask)
  IN IF masked_size <= string_size
     THEN masked_size
     ELSE BitAnd(tree_size, mask \div 2)

\* ------------------------------------------------------------ tree stack
\* A tree_stack_base is (trees, _size) plus the arena it is attached to.

\* has_suffix without the comparison against split.right
RightEqualSkip(right, trees) == TRUE

\* std::equal(split.right.begin(), split.right.end(), trees.begin())
RightEqual(right, trees) == \A i \in 1 .. Len(right) : right[i] = trees[i]

\* The borrow walk descending one level further
RECURSIVE BorrowWalkDeep(_, _, _, _)
BorrowWalkDeep(ars, borrowed, borrowed_bit, left_bit) ==
  IF borrowed_bit > left_bit - 1
  THEN BorrowWalkDeep(ars, Rhs(ars, borrowed), borrowed_bit - 1, left_bit)
  ELSE borrowed

\* while (borrowed_bit > left_bit) borrowed = borrowed->rhs
RECURSIVE BorrowWalk(_, _, _, _)
BorrowWalk(ars, borrowed, borrowed_bit, left_bit) ==
  IF borrowed_bit > left_bit
  THEN BorrowWalk(ars, Rhs(ars, borrowed), borrowed_bit - 1, left_bit)
  ELSE borrowed

\* has_suffix without the comparison against split.left
LeftCompareSkip(ars, left, on_left, borrowed, left_bit) == TRUE

\* for (; left_bit; --left_bit) of has_suffix
RECURSIVE LeftCompare(_, _, _, _, _)
LeftCompare(ars, left, on_left, borrowed, left_bit) ==
  IF left_bit = 0 THEN TRUE
  ELSE LET left_tree == At(left, left_bit - 1)
           our_tree == borrowed
       IN IF BitAnd(on_left, the_bit(left_bit - 1)) # 0
          THEN IF Rhs(ars, our_tree) # left_tree
               THEN FALSE
               ELSE LeftCompare(ars, left, on_left, Lhs(ars, our_tree), left_bit - 1)
          ELSE LeftCompare(ars, left, on_left, Rhs(ars, our_tree), left_bit - 1)

\* has_suffix refusing a sequence as long as the stack
has_suffix_strict(ars, trs, sz, itree) ==
  IF sz <= idx_size(itree) THEN FALSE
  ELSE IF idx_empty(itree) THEN TRUE
  ELSE LET on_right == compute_association(sz, idx_size(itree))
           on_left == idx_size(itree) - on_right
           split == association(itree, on_right)
       IN IF ~RightEqual(split.right, trs) THEN FALSE
          ELSE IF on_left = 0 THEN TRUE
          ELSE LET borrowed_bit == countr_zero(sz - on_right)
                   left_bit == Len(split.left)
                   borrowed == BorrowWalk(ars, At(trs, borrowed_bit),
                                          borrowed_bit, left_bit)
               IN LeftCompare(ars, split.left, on_left, borrowed, left_bit)

\* tree_stack_base::has_suffix
has_suffix(ars, trs, sz, itree) ==
  IF sz < idx_size(itree) THEN FALSE
  ELSE IF idx_empty(itree) THEN TRUE
  ELSE LET on_right == compute_association(sz, idx_size(itree))
           on_left == idx_size(itree) - on_right
           split == association(itree, on_right)
       IN IF ~RightEqual(split.right, trs) THEN FALSE
          ELSE IF on_left = 0 THEN TRUE
          ELSE LET borrowed_bit == countr_zero(sz - on_right)
                   left_bit == Len(split.left)
                   borrowed == BorrowWalk(ars, At(trs, borrowed_bit),
                                          borrowed_bit, left_bit)
               IN LeftCompare(ars, split.left, on_left, borrowed, left_bit)

\* The loops of append work on [trees, constructing, bit_no, ars].
\* for (; the_bit(bit_no) <= on_left; ++bit_no)
RECURSIVE AppendSupply(_, _, _, _)
AppendSupply(st, a, left, on_left) ==
  IF the_bit(st.bit_no) > on_left THEN st
  ELSE LET supplied == BitAnd(on_left, the_bit(st.bit_no)) # 0
       IN IF supplied
          THEN LET r == intern(st.ars, a, st.constructing, At(left, st.bit_no))
               IN AppendSupply([st EXCEPT !.constructing = r.h, !.ars = r.ars,
                                          !.bit_no = @ + 1],
                               a, left, on_left)
          ELSE LET r == intern(st.ars, a, At(st.trees, st.bit_no), st.constructing)
               IN AppendSupply([st EXCEPT !.constructing = r.h, !.ars = r.ars,
                                          !.trees = SetAt(@, st.bit_no, nullptr),
                                          !.bit_no = @ + 1],
                               a, left, on_left)

\* append without the carry loop
AppendCarryNone(st, a) == st

\* the carry of append with the operands of intern exchanged
RECURSIVE AppendCarrySwapped(_, _)
AppendCarrySwapped(st, a) ==
  LET lhs == At(st.trees, st.bit_no)
  IN IF lhs = nullptr THEN st
     ELSE LET r == intern(st.ars, a, st.constructing, lhs)
          IN AppendCarrySwapped([st EXCEPT !.constructing = r.h, !.ars = r.ars,
                                           !.trees = SetAt(@, st.bit_no, nullptr),
                                           !.bit_no = @ + 1],
                                a)

\* the carry of append without `lhs = nullptr`
RECURSIVE AppendCarryNoClear(_, _)
AppendCarryNoClear(st, a) ==
  LET lhs == At(st.trees, st.bit_no)
  IN IF lhs = nullptr THEN st
     ELSE LET r == intern(st.ars, a, lhs, st.constructing)
          IN AppendCarryNoClear([st EXCEPT !.constructing = r.h, !.ars = r.ars,
                                           !.bit_no = @ + 1],
                                a)

\* while (true) { lhs = trees[bit_no]; if (!lhs) break; ... }
RECURSIVE AppendCarry(_, _)
AppendCarry(st, a) ==
  LET lhs == At(st.trees, st.bit_no)
  IN IF lhs = nullptr THEN st
     ELSE LET r == intern(st.ars, a, lhs, st.constructing)
          IN AppendCarry([st EXCEPT !.constructing = r.h, !.ars = r.ars,
                                    !.trees = SetAt(@, st.bit_no, nullptr),
                                    !.bit_no = @ + 1],
                         a)

\* while (remaining_right) of append; `pos` is the offset of both iterators.
\* ok records whether every assert(!*dst_iter) held.
RECURSIVE AppendRight(_, _, _, _, _)
AppendRight(trs, right, remaining_right, pos, ok) ==
  IF remaining_right = 0 THEN [trees |-> trs, ok |-> ok]
  ELSE LET step == countr_zero(remaining_right)
           at == pos + step
       IN AppendRight(SetAt(trs, at, At(right, at)), right,
                      remaining_right \div the_bit(step + 1), at + 1,
                      ok /\ At(trs, at) = nullptr)

\* tree_stack_base::append; returns [trees, size, ars, ok, carry]: carry is
\* the slot the carry loop stopped at and wrote (-1 when it did not run).
append(ars, a, trs, sz, itree) ==
  IF idx_empty(itree)
  THEN [trees |-> trs, size |-> sz, ars |-> ars, ok |-> TRUE, carry |-> 0 - 1]
  ELSE LET new_size == sz + idx_size(itree)
           on_right == compute_association(new_size, idx_size(itree))
           on_left == idx_size(itree) - on_right
           split == association(itree, on_right)
           resized == Resize(trs, bit_width(new_size))
           afterLeft ==
             IF on_left # 0
             THEN LET bit_no == countr_zero(on_left)
                      st0 == [trees |-> SetAt(resized, bit_no, nullptr),
                              constructing |-> At(resized, bit_no),
                              bit_no |-> bit_no, ars |-> ars]
                      st1 == AppendSupply(st0, a, split.left, on_left)
                      st2 == AppendCarry(st1, a)
                  IN [trees |-> SetAt(st2.trees, st2.bit_no, st2.constructing),
                      ars |-> st2.ars, bit_no |-> st2.bit_no]
             ELSE [trees |-> resized, ars |-> ars, bit_no |-> 0 - 1]
           afterRight == AppendRight(afterLeft.trees, split.right, on_right, 0, TRUE)
       IN [trees |-> afterRight.trees, size |-> new_size,
           ars |-> afterLeft.ars, ok |-> afterRight.ok,
           carry |-> afterLeft.bit_no]

\* bit_no of append when the supply loop is left and the carry loop
\* begins (-1 when on_left = 0 and neither runs).
append_carry_from(ars, a, trs, sz, itree) ==
  IF idx_empty(itree) THEN 0 - 1
  ELSE LET new_size == sz + idx_size(itree)
           on_right == compute_association(new_size, idx_size(itree))
           on_left == idx_size(itree) - on_right
           resized == Resize(trs, bit_width(new_size))
           bit_no == countr_zero(on_left)
       IN IF on_left = 0 THEN 0 - 1
          ELSE AppendSupply([trees |-> SetAt(resized, bit_no, nullptr),
                             constructing |-> At(resized, bit_no),
                             bit_no |-> bit_no, ars |-> ars],
                            a, association(itree, on_right).left, on_left).bit_no

\* arena.intern when the allocator can still serve `budget` nodes: the
\* emplace of a node not yet held throws std::bad_alloc once budget is 0,
\* and then leaves the arena as it was.  `r` is what intern does when the
\* allocation succeeds.
AllocOutcome(r, ars, budget) ==
  IF r.ars # ars /\ budget = 0
  THEN [h |-> nullptr, ars |-> ars, budget |-> budget, thrown |-> TRUE]
  ELSE [h |-> r.h, ars |-> r.ars,
        budget |-> IF r.ars # ars THEN budget - 1 ELSE budget,
        thrown |-> FALSE]

intern_alloc(ars, a, lhs, rhs, budget) ==
  AllocOutcome(intern(ars, a, lhs, rhs), ars, budget)

\* The loops of append when intern may throw work on
\* [trees, constructing, bit_no, ars, budget, thrown]; a throw leaves the
\* loop at once, before the assignments that follow the intern call.
\* One iteration's assignments after intern returned r:
\* constructing = r; (tr = nullptr;) ++bit_no
AfterIntern(st, r, clear) ==
  IF r.thrown THEN [st EXCEPT !.thrown = TRUE]
  ELSE [st EXCEPT !.constructing = r.h, !.ars = r.ars, !.budget = r.budget,
                  !.trees = IF clear THEN SetAt(@, st.bit_no, nullptr) ELSE @,
                  !.bit_no = @ + 1]

\* for (; the_bit(bit_no) <= on_left; ++bit_no), intern may throw
RECURSIVE AppendSupplyThrow(_, _, _, _)
AppendSupplyThrow(st, a, left, on_left) ==
  IF st.thrown \/ the_bit(st.bit_no) > on_left THEN st
  ELSE IF BitAnd(on_left, the_bit(st.bit_no)) # 0
  THEN AppendSupplyThrow(
         AfterIntern(st, intern_alloc(st.ars, a, st.constructing,
                                      At(left, st.bit_no), st.budget), FALSE),
         a, left, on_left)
  ELSE AppendSupplyThrow(
         AfterIntern(st, intern_alloc(st.ars, a, At(st.trees, st.bit_no),
                                      st.constructing, st.budget), TRUE),
         a, left, on_left)

\* while (true) { lhs = trees[bit_no]; if (!lhs) break; ... }, intern may throw
RECURSIVE AppendCarryThrow(_, _)
AppendCarryThrow(st, a) ==
  IF st.thrown \/ At(st.trees, st.bit_no) = nullptr THEN st
  ELSE AppendCarryThrow(
         AfterIntern(st, intern_alloc(st.ars, a, At(st.trees, st.bit_no),
                                      st.constructing, st.budget), TRUE),
         a)

\* constructing = trees[bit_no]; trees[bit_no] = nullptr;
AppendThrowStart(ars, resized, bit_no, budget) ==
  [trees |-> SetAt(resized, bit_no, nullptr),
   constructing |-> At(resized, bit_no),
   bit_no |-> bit_no, ars |-> ars, budget |-> budget, thrown |-> FALSE]

\* trees[bit_no] = constructing, not reached after a throw
AppendThrowPlace(st) ==
  IF st.thrown THEN st
  ELSE [st EXCEPT !.trees = SetAt(@, st.bit_no, st.constructing)]

\* the `if (on_left)` block of append, intern may throw
AppendThrowLeft(ars, a, resized, left, on_left, budget) ==
  IF on_left # 0
  THEN AppendThrowPlace(
         AppendCarryThrow(
           AppendSupplyThrow(
             AppendThrowStart(ars, resized, countr_zero(on_left), budget),
             a, left, on_left),
           a))
  ELSE [trees |-> resized, ars |-> ars, thrown |-> FALSE]

\* The right phase and `_size = new_size`, not reached after a throw: the
\* exception leaves trees and the arena as the statements executed so far
\* left them, and _size as it was.
AppendThrowRight(st, right, on_right, sz, new_size) ==
  IF st.thrown
  THEN [trees |-> st.trees, size |-> sz, ars |-> st.ars, thrown |-> TRUE]
  ELSE [trees |-> AppendRight(st.trees, right, on_right, 0, TRUE).trees,
        size |-> new_size, ars |-> st.ars, thrown |-> FALSE]

AppendThrowSplit(ars, a, trs, sz, itree, budget, new_size, on_right) ==
  AppendThrowRight(
    AppendThrowLeft(ars, a, Resize(trs, bit_width(new_size)),
                    association(itree, on_right).left,
                    idx_size(itree) - on_right, budget),
    association(itree, on_right).right, on_right, sz, new_size)

\* tree_stack_base::append when intern may throw; returns
\* [trees, size, ars, thrown]
append_throw(ars, a, trs, sz, itree, budget) ==
  IF idx_empty(itree)
  THEN [trees |-> trs, size |-> sz, ars |-> ars, thrown |-> FALSE]
  ELSE AppendThrowSplit(ars, a, trs, sz, itree, budget, sz + idx_size(itree),
                        compute_association(sz + idx_size(itree), idx_size(itree)))

\* truncate's right phase without `*my_iter = nullptr`
RECURSIVE TruncateRightKeep(_, _, _, _)
TruncateRightKeep(trs, right_iter, pos, ok) ==
  IF right_iter = 0 THEN [trees |-> trs, ok |-> ok]
  ELSE LET step == countr_zero(right_iter)
           at == pos + step
       IN TruncateRightKeep(trs, right_iter \div the_bit(step + 1), at + 1,
                            ok /\ At(trs, at) # nullptr)

\* while (right_iter) of truncate; ok records whether every assert(*my_iter) held.
RECURSIVE TruncateRight(_, _, _, _)
TruncateRight(trs, right_iter, pos, ok) ==
  IF right_iter = 0 THEN [trees |-> trs, ok |-> ok]
  ELSE LET step == countr_zero(right_iter)
           at == pos + step
       IN TruncateRight(SetAt(trs, at, nullptr),
                        right_iter \div the_bit(step + 1), at + 1,
                        ok /\ At(trs, at) # nullptr)

\* truncate keeping the right half of the tree it takes apart
RECURSIVE DeconstructSwapped(_, _, _, _, _, _)
DeconstructSwapped(ars, trs, splitting, to_remain, bit_no, bit) ==
  IF bit = 0 THEN trs
  ELSE IF BitAnd(to_remain, bit) # 0
       THEN DeconstructSwapped(ars, SetAt(trs, bit_no, Rhs(ars, splitting)),
                               Lhs(ars, splitting), to_remain, bit_no - 1, bit \div 2)
       ELSE DeconstructSwapped(ars, trs, Lhs(ars, splitting), to_remain,
                               bit_no - 1, bit \div 2)

\* for (; bit; --bit_no, bit >>= 1) of truncate
RECURSIVE Deconstruct(_, _, _, _, _, _)
Deconstruct(ars, trs, splitting, to_remain, bit_no, bit) ==
  IF bit = 0 THEN trs
  ELSE LET keeping == BitAnd(to_remain, bit) # 0
           branch == splitting
       IN IF keeping
          THEN Deconstruct(ars, SetAt(trs, bit_no, Lhs(ars, branch)),
                           Rhs(ars, branch), to_remain, bit_no - 1, bit \div 2)
          ELSE Deconstruct(ars, trs, Lhs(ars, branch), to_remain,
                           bit_no - 1, bit \div 2)

\* truncate that clears the right trees and never takes a tree apart
truncate_right_only(ars, trs, sz, new_size) ==
  LET to_remove == sz - new_size
      on_right == compute_association(sz, to_remove)
      afterRight == TruncateRight(trs, on_right, 0, TRUE)
  IN [trees |-> Resize(afterRight.trees, bit_width(new_size)), size |-> new_size,
      ok |-> afterRight.ok]

\* truncate without the final trees.resize(bit_width(_size))
truncate_no_resize(ars, trs, sz, new_size) ==
  LET to_remove == sz - new_size
      on_right == compute_association(sz, to_remove)
      on_left == to_remove - on_right
      afterRight == TruncateRight(trs, on_right, 0, TRUE)
      afterLeft ==
        IF on_left # 0
        THEN LET to_deconstruct == countr_zero(sz - on_right)
                 to_remain == the_bit(to_deconstruct) - on_left
                 splitting == At(afterRight.trees, to_deconstruct)
                 cleared == SetAt(afterRight.trees, to_deconstruct, nullptr)
                 bit_no == to_deconstruct - 1
             IN Deconstruct(ars, cleared, splitting, to_remain, bit_no, the_bit(bit_no))
        ELSE afterRight.trees
  IN [trees |-> afterLeft, size |-> new_size, ok |-> afterRight.ok]

\* tree_stack_base::truncate, for new_size <= _size; returns [trees, size, ok]
truncate(ars, trs, sz, new_size) ==
  LET to_remove == sz - new_size
      on_right == compute_association(sz, to_remove)
      on_left == to_remove - on_right
      afterRight == TruncateRight(trs, on_right, 0, TRUE)
      afterLeft ==
        IF on_left # 0
        THEN LET to_deconstruct == countr_zero(sz - on_right)
                 to_remain == the_bit(to_deconstruct) - on_left
                 splitting == At(afterRight.trees, to_deconstruct)
                 cleared == SetAt(afterRight.trees, to_deconstruct, nullptr)
                 bit_no == to_deconstruct - 1
             IN Deconstruct(ars, cleared, splitting, to_remain, bit_no, the_bit(bit_no))
        ELSE afterRight.trees
  IN [trees |-> Resize(afterLeft, bit_width(new_size)), size |-> new_size,
      ok |-> afterRight.ok]

\* pop removing one leaf more than asked
pop_one_more(ars, trs, sz, count) ==
  truncate(ars, trs, sz, IF count >= sz THEN 0 ELSE sz - count - 1)

\* pop leaving the stack alone when asked for more than it holds
pop_unsaturated(ars, trs, sz, count) ==
  truncate(ars, trs, sz, IF count > sz THEN sz ELSE sz - count)

\* tree_stack_base::pop
pop(ars, trs, sz, count) ==
  truncate(ars, trs, sz, IF count > sz THEN 0 ELSE sz - count)

\* back descending by lhs
RECURSIVE BackWalkLeft(_, _, _)
BackWalkLeft(ars, tree, bit) ==
  IF bit = 0 THEN tree ELSE BackWalkLeft(ars, Lhs(ars, tree), bit - 1)

\* tree_stack_base::back
RECURSIVE BackWalk(_, _, _)
BackWalk(ars, tree, bit) ==
  IF bit = 0 THEN tree ELSE BackWalk(ars, Rhs(ars, tree), bit - 1)

back(ars, trs, sz) ==
  LET bit == countr_zero(sz) IN BackWalk(ars, At(trs, bit), bit)

\* ------------------------------------------------------------- iterators
\* A node::iterator is [bit, idx, stack, over]; stack[i] (0-based) is the
\* subtree of 2^i leaves on the path to position idx, stack[bit] the root.

\* node::iterator::resolve_from
\* stack[it + 1] as resolve_from reads it.  `stack` has bit + 1 elements;
\* a read of stack[bit + 1] is a read past the end of the vector, which is
\* undefined and yields `junk`, whatever the caller supplies for it.
StackRead(stack, i, junk) == IF i < Len(stack) THEN At(stack, i) ELSE junk

\* the loop of resolve_from taking the children the other way round
RECURSIVE resolve_loop_mirrored(_, _, _, _, _)
resolve_loop_mirrored(ars, stack, idx, it, junk) ==
  IF it < 0 THEN stack
  ELSE resolve_loop_mirrored(ars,
                    SetAt(stack, it,
                          Child(ars, StackRead(stack, it + 1, junk),
                                BitAnd(idx, the_bit(it)) = 0)),
                    idx, it - 1, junk)

\* for (int it = width - 1; it >= 0; --it) stack[it] = (*stack[it + 1])[idx & the_bit(it)]
RECURSIVE resolve_loop(_, _, _, _, _)
resolve_loop(ars, stack, idx, it, junk) ==
  IF it < 0 THEN stack
  ELSE resolve_loop(ars,
                    SetAt(stack, it,
                          Child(ars, StackRead(stack, it + 1, junk),
                                BitAnd(idx, the_bit(it)) # 0)),
                    idx, it - 1, junk)

\* node::iterator::resolve_from
resolve_from(ars, iter, width, junk) ==
  [iter EXCEPT !.stack = resolve_loop(ars, iter.stack, iter.idx, width - 1, junk)]

\* node::iterator::iterator(bit, root, idx).  resolve_from(bit) reads
\* stack[bit] at most, inside the vector, so no junk is ever read here.
node_iterator(ars, bit, root, idx) ==
  resolve_from(ars,
               [bit |-> bit, idx |-> idx, over |-> FALSE,
                stack |-> Append(Fill(bit, nullptr), root)],
               bit, Wild)

\* node::iterator::size
node_iterator_size(iter) == the_bit(iter.bit)

\* node::iterator::move; `junk` is what a read past the end of stack yields
move_by(ars, iter, by, junk) ==
  IF by = 0 THEN iter
  ELSE LET oldIdx == iter.idx
           under == by < 0 /\ iter.idx < 0 - by
           above == ~under /\ by > 0 /\ node_iterator_size(iter) - iter.idx < by
           newIdx == IF under THEN 0
                     ELSE IF above THEN node_iterator_size(iter) - 1
                     ELSE iter.idx + by
           flagged == [iter EXCEPT !.over = under \/ above]
           delta == BitXor(newIdx, oldIdx)
       IN IF delta = 0 THEN flagged
          ELSE resolve_from(ars, [flagged EXCEPT !.idx = newIdx], bit_width(delta), junk)

\* node::iterator::move as r_iterator uses it: by = -1 from an index inside
\* the tree, where delta is below size() and stack is read inside its bounds.
move(ars, iter, by) == move_by(ars, iter, by, Wild)

\* node::iterator::operator==
node_iterator_eq(x, y) == x.idx = y.idx /\ x.over = y.over

\* node::iterator::operator*: stack.front()
node_iterator_deref(iter) == At(iter.stack, 0)

\* tree_stack_base::r_iterator::r_iterator(tree, end); a r_iterator is
\* [size, bit, nodes, over] (its owner is the stack whose trees are passed).
r_iterator(ars, trs, sz, end) ==
  IF sz = 0
  THEN [size |-> sz, bit |-> 0, over |-> TRUE,
        nodes |-> node_iterator(ars, 0, nullptr, 0)]
  ELSE LET bit == IF end THEN Len(trs) - 1 ELSE countr_zero(sz)
           nodes == node_iterator(ars, bit, At(trs, bit),
                                  IF end THEN 0 ELSE the_bit(bit) - 1)
       IN [size |-> sz, bit |-> bit, over |-> end,
           nodes |-> IF end THEN move(ars, nodes, 0 - 1) ELSE nodes]

\* operator++ entering the next tree at its index 0
r_iterator_inc_front(ars, trs, it) ==
  LET stepped == move(ars, it.nodes, 0 - 1)
  IN IF ~stepped.over THEN [it EXCEPT !.nodes = stepped]
     ELSE LET low == the_bit(it.bit + 1)
              remaining_size == it.size - (it.size % low)
          IN IF remaining_size = 0
             THEN [it EXCEPT !.nodes = stepped, !.over = TRUE]
             ELSE LET bit == countr_zero(remaining_size)
                  IN [it EXCEPT !.bit = bit,
                                !.nodes = node_iterator(ars, bit, At(trs, bit), 0)]

\* tree_stack_base::r_iterator::operator++()
r_iterator_inc(ars, trs, it) ==
  LET stepped == move(ars, it.nodes, 0 - 1)
  IN IF ~stepped.over THEN [it EXCEPT !.nodes = stepped]
     ELSE LET low == the_bit(it.bit + 1)
              remaining_size == it.size - (it.size % low)
          IN IF remaining_size = 0
             THEN [it EXCEPT !.nodes = stepped, !.over = TRUE]
             ELSE LET bit == countr_zero(remaining_size)
                  IN [it EXCEPT !.bit = bit,
                                !.nodes = node_iterator(ars, bit, At(trs, bit),
                                                        the_bit(bit) - 1)]

\* tree_stack_base::r_iterator::operator==
r_iterator_eq(x, y) ==
  x.bit = y.bit /\ x.over = y.over /\ node_iterator_eq(x.nodes, y.nodes)

\* ++it applied n times
RECURSIVE r_iterator_advance(_, _, _, _)
r_iterator_advance(ars, trs, it, n) ==
  IF n = 0 THEN it
  ELSE r_iterator_advance(ars, trs, r_iterator_inc(ars, trs, it), n - 1)

rbegin(ars, trs, sz) == r_iterator(ars, trs, sz, FALSE)

rend(ars, trs, sz) == r_iterator(ars, trs, sz, TRUE)

\* std::vector<T> ret(rbegin(), rend()): push *first while first != last.
\* The loop has no bound of its own; `fuel` stops a walk that never meets
\* rend(), which then yields the marker <<Wild>>.
RECURSIVE CollectRange(_, _, _, _, _, _)
CollectRange(ars, trs, first, last, acc, fuel) ==
  IF r_iterator_eq(first, last) THEN acc
  ELSE IF fuel = 0 THEN <<Wild>>
  ELSE CollectRange(ars, trs, r_iterator_inc(ars, trs, first), last,
                    Append(acc, find_in_pointer(node_iterator_deref(first.nodes))),
                    fuel - 1)

ReverseContents(ars, trs, sz) ==
  CollectRange(ars, trs, rbegin(ars, trs, sz), rend(ars, trs, sz), <<>>, sz + 1)

\* tree_stack<T>::operator std::vector<T>
to_vector(ars, trs, sz) == Reverse(ReverseContents(ars, trs, sz))

\* ----------------------------------------------------------- naive stack
\* naive_stack<T> is its `values` vector.

naive_has_suffix(vals, suff) ==
  IF Len(suff) > Len(vals) THEN FALSE
  ELSE \A i \in 1 .. Len(suff) :
         suff[Len(suff) + 1 - i] = vals[Len(vals) + 1 - i]

naive_append(vals, suff) == vals \o suff

naive_truncate(vals, count) ==
  IF count <= Len(vals) THEN SubSeq(vals, 1, count)
  ELSE vals \o Fill(count - Len(vals), 0)

naive_pop(vals, count) ==
  naive_truncate(vals, IF count > Len(vals) THEN 0 ELSE Len(vals) - count)

\* ----------------------------------------------------------------- state
VARIABLES
  arenas,   \* every node_arena alive; the stack is attached to arenas[1]
  trees,    \* tree_stack_base::trees
  size,     \* tree_stack_base::_size
  values,   \* naive_stack::values, driven by the same operations
  last,     \* the operation that produced this state, its arguments and results
  ops,      \* how many operations have run
  calls,    \* every intern call made directly on an arena: [a, lhs, rhs, h]
  built,    \* every indexed string built directly: [a, s, assocs, at]
  iter,     \* the iterator under test, the copy its last operator returned,
            \* and what it was before that operator ran
  shared    \* two more stacks attached to arenas[1], each with a twin that
            \* is given the same operations on an arena of its own

vars == <<arenas, trees, size, values, last, ops, calls, built, iter, shared>>

RECURSIVE SeqsOfLen(_)
SeqsOfLen(n) ==
  IF n = 0 THEN {<<>>}
  ELSE {Append(q, x) : q \in SeqsOfLen(n - 1), x \in Leaves}

\* The leaf sequences the operations are driven with.
Strings == UNION {SeqsOfLen(n) : n \in 0 .. MaxLen}

StackArena == 1

NoOp == [op |-> "init", s |-> <<>>, k |-> 0, res |-> TRUE, nres |-> TRUE,
         ok |-> TRUE, preSize |-> 0, preTrees |-> <<>>, idx |-> <<>>,
         carry |-> 0 - 1, val |-> 0, oob |-> FALSE, thrown |-> FALSE]

\* No iterator has been constructed.
NoIter == [kind |-> "none"]

\* tree_stack<int> a(arena), b(arena): two empty stacks on the shared arena;
\* node_arena own; tree_stack<int> alone(own): the twin of each.
EmptyShared ==
  [trees |-> <<>>, size |-> 0,
   soloArs |-> <<NewArena(0)>>, soloTrees |-> <<>>, soloSize |-> 0]

NoShared ==
  [stacks |-> <<EmptyShared, EmptyShared>>, op |-> "init", who |-> 0,
   res |-> TRUE, solo |-> TRUE, steps |-> 0]

\* node_arena arena; tree_stack<int> stk(arena); naive_stack<int> baseline;
Init ==
  /\ arenas = <<NewArena(0)>>
  /\ trees = <<>>
  /\ size = 0
  /\ values = <<>>
  /\ last = NoOp
  /\ ops = 0
  /\ calls = <<>>
  /\ built = <<>>
  /\ iter = NoIter
  /\ shared = NoShared

\* string indexed(arena, s); stk.append(indexed); baseline.append(s);
DoAppend(s) ==
  /\ ops < MaxOps
  /\ ops' = ops + 1
  /\ size + Len(s) <= MaxSize
  /\ LET ix == indexed_string_over(arenas, StackArena, s)
         r == append(ix.ars, StackArena, trees, size, ix.assocs)
     IN /\ arenas' = r.ars
        /\ trees' = r.trees
        /\ size' = r.size
        /\ values' = naive_append(values, s)
        /\ last' = [NoOp EXCEPT !.op = "append", !.s = s, !.ok = r.ok,
                                !.preSize = size, !.preTrees = trees,
                                !.idx = ix.assocs, !.carry = r.carry]
        /\ UNCHANGED <<calls, built, iter, shared>>

\* stk.truncate(k); baseline.truncate(k);  (k <= size)
DoTruncate(k) ==
  /\ ops < MaxOps
  /\ ops' = ops + 1
  /\ k <= size
  /\ LET r == truncate(arenas, trees, size, k)
     IN /\ trees' = r.trees
        /\ size' = r.size
        /\ values' = naive_truncate(values, k)
        /\ last' = [NoOp EXCEPT !.op = "truncate", !.k = k, !.ok = r.ok,
                                !.preSize = size, !.preTrees = trees]
        /\ UNCHANGED <<arenas, calls, built, iter, shared>>

\* stk.pop(k); baseline.pop(k);
DoPop(k) ==
  /\ ops < MaxOps
  /\ ops' = ops + 1
  /\ k <= size + 1
  /\ LET r == pop(arenas, trees, size, k)
     IN /\ trees' = r.trees
        /\ size' = r.size
        /\ values' = naive_pop(values, k)
        /\ last' = [NoOp EXCEPT !.op = "pop", !.k = k, !.ok = r.ok,
                                !.preSize = size, !.preTrees = trees]
        /\ UNCHANGED <<arenas, calls, built, iter, shared>>

\* has_suffix that pops the suffix it found
DoHasSuffixConsuming(s) ==
  /\ ops < MaxOps
  /\ ops' = ops + 1
  /\ LET ix == indexed_string_over(arenas, StackArena, s)
         found == has_suffix(ix.ars, trees, size, ix.assocs)
         r == pop(ix.ars, trees, size, IF found THEN Len(s) ELSE 0)
     IN /\ arenas' = ix.ars
        /\ trees' = r.trees
        /\ size' = r.size
        /\ last' = [NoOp EXCEPT !.op = "has_suffix", !.s = s, !.res = found,
                                !.nres = naive_has_suffix(values, s),
                                !.preSize = size, !.preTrees = trees,
                                !.idx = ix.assocs]
        /\ UNCHANGED <<values, calls, built, iter, shared>>

\* string indexed(arena, s); stk.has_suffix(indexed); baseline.has_suffix(s);
DoHasSuffix(s) ==
  /\ ops < MaxOps
  /\ ops' = ops + 1
  /\ LET ix == indexed_string_over(arenas, StackArena, s)
     IN /\ arenas' = ix.ars
        /\ last' = [NoOp EXCEPT !.op = "has_suffix", !.s = s,
                                !.res = has_suffix(ix.ars, trees, size, ix.assocs),
                                !.nres = naive_has_suffix(values, s),
                                !.preSize = size, !.preTrees = trees,
                                !.idx = ix.assocs]
        /\ UNCHANGED <<trees, size, values, calls, built, iter, shared>>

\* stk.back().  back() has no guard and no assertion: it reads
\* trees[countr_zero(size())] whatever the size.  On an empty stack that
\* slot is outside trees (oob) and the read is undefined: it yields any
\* leaf, or Wild for a faulting or garbage read.  `ok` stays true: there
\* is no assert in back() that could fail.
DoBack ==
  /\ ops < MaxOps
  /\ ops' = ops + 1
  /\ LET bit == countr_zero(size)
         oob == bit >= Len(trees)
     IN \E v \in (IF oob THEN Leaves \cup {Wild}
                  ELSE {find_in_pointer(back(arenas, trees, size))}) :
          last' = [NoOp EXCEPT !.op = "back", !.val = v, !.oob = oob,
                               !.ok = TRUE,
                               !.preSize = size, !.preTrees = trees]
  /\ UNCHANGED <<arenas, trees, size, values, calls, built, iter, shared>>

Next ==
  \/ \E s \in Strings : DoAppend(s)
  \/ \E k \in 0 .. MaxSize : DoTruncate(k)
  \/ \E k \in 0 .. MaxSize + 1 : DoPop(k)
  \/ \E s \in Strings : DoHasSuffix(s)
  \/ DoBack

Spec == Init /\ [][Next]_vars

\* string indexed(arena, s); stk.append(indexed); with an allocator that
\* serves `budget` more nodes to the interning done by append.  Nothing
\* catches the exception, so no operation follows a throw.
DoAppendThrow(s, budget) ==
  /\ ops < MaxOps
  /\ ops' = ops + 1
  /\ ~last.thrown
  /\ size + Len(s) <= MaxSize
  /\ LET ix == indexed_string_over(arenas, StackArena, s)
         r == append_throw(ix.ars, StackArena, trees, size, ix.assocs, budget)
     IN /\ arenas' = r.ars
        /\ trees' = r.trees
        /\ size' = r.size
        /\ values' = IF r.thrown THEN values ELSE naive_append(values, s)
        /\ last' = [NoOp EXCEPT !.op = "append", !.s = s,
                                !.thrown = r.thrown,
                                !.preSize = size, !.preTrees = trees,
                                !.idx = ix.assocs]
        /\ UNCHANGED <<calls, built, iter, shared>>

NextThrow == \E s \in Strings : \E budget \in 0 .. MaxAllocs : DoAppendThrow(s, budget)

SpecThrow == Init /\ [][NextThrow]_vars

\* ------------------------------------------- an index from another arena
\* node_arena arena, other; tree_stack<int> stk(arena); the stack lives on
\* arenas[1], sequences are indexed through the unrelated arenas[2].
OtherArena == 2

InitCross ==
  /\ arenas = <<NewArena(0), NewArena(0)>>
  /\ trees = <<>>
  /\ size = 0
  /\ values = <<>>
  /\ last = NoOp
  /\ ops = 0
  /\ calls = <<>>
  /\ built = <<>>
  /\ iter = NoIter
  /\ shared = NoShared

\* string indexed(other, s); stk.has_suffix(indexed);
DoHasSuffixCross(s) ==
  /\ ops < MaxOps
  /\ ops' = ops + 1
  /\ LET ix == indexed_string_over(arenas, OtherArena, s)
     IN /\ arenas' = ix.ars
        /\ last' = [NoOp EXCEPT !.op = "has_suffix_cross", !.s = s,
                                !.res = has_suffix(ix.ars, trees, size, ix.assocs),
                                !.nres = naive_has_suffix(values, s),
                                !.preSize = size, !.preTrees = trees,
                                !.idx = ix.assocs]
        /\ UNCHANGED <<trees, size, values, calls, built, iter, shared>>

NextCross ==
  \/ \E s \in Strings : DoAppend(s)
  \/ \E s \in Strings : DoHasSuffixCross(s)

SpecCross == InitCross /\ [][NextCross]_vars

\* ------------------------------------------- compute_association alone
\* compute_association(tree_size, string_size) called on its own; `last`
\* keeps tree_size in k, string_size in preSize and the result in val.
DoAssociation(tree_size, string_size) ==
  /\ last' = [NoOp EXCEPT !.op = "compute_association", !.k = tree_size,
                          !.preSize = string_size,
                          !.val = compute_association(tree_size, string_size)]
  /\ UNCHANGED <<arenas, trees, size, values, ops, calls, built, iter, shared>>

NextAssoc ==
  \E tree_size, string_size \in 0 .. MaxAssoc : DoAssociation(tree_size, string_size)

SpecAssoc == Init /\ [][NextAssoc]_vars

\* ------------------------------------- the nodes an operation reads through
\* has_suffix and truncate cast handles to `const node *` and read lhs or
\* rhs through them.  These operators follow the same walks and collect
\* every handle so read, with the level (log2 of the size) of the tree the
\* code takes it for.

\* while (borrowed_bit > left_bit) borrowed = borrowed->rhs
RECURSIVE BorrowWalkReads(_, _, _, _)
BorrowWalkReads(ars, borrowed, borrowed_bit, left_bit) ==
  IF borrowed_bit > left_bit
  THEN {<<borrowed, borrowed_bit>>}
       \cup BorrowWalkReads(ars, Rhs(ars, borrowed), borrowed_bit - 1, left_bit)
  ELSE {}

\* for (; left_bit; --left_bit) of has_suffix
RECURSIVE LeftCompareReads(_, _, _, _, _)
LeftCompareReads(ars, left, on_left, borrowed, left_bit) ==
  IF left_bit = 0 THEN {}
  ELSE {<<borrowed, left_bit>>} \cup
       (IF BitAnd(on_left, the_bit(left_bit - 1)) # 0
        THEN IF Rhs(ars, borrowed) # At(left, left_bit - 1) THEN {}
             ELSE LeftCompareReads(ars, left, on_left, Lhs(ars, borrowed),
                                   left_bit - 1)
        ELSE LeftCompareReads(ars, left, on_left, Rhs(ars, borrowed),
                              left_bit - 1))

\* tree_stack_base::has_suffix: the handles it reads through
has_suffix_reads(ars, trs, sz, itree) ==
  IF sz < idx_size(itree) \/ idx_empty(itree) THEN {}
  ELSE LET on_right == compute_association(sz, idx_size(itree))
           on_left == idx_size(itree) - on_right
           split == association(itree, on_right)
       IN IF ~RightEqual(split.right, trs) \/ on_left = 0 THEN {}
          ELSE LET borrowed_bit == countr_zero(sz - on_right)
                   left_bit == Len(split.left)
               IN BorrowWalkReads(ars, At(trs, borrowed_bit), borrowed_bit, left_bit)
                  \cup LeftCompareReads(ars, split.left, on_left,
                                        BorrowWalk(ars, At(trs, borrowed_bit),
                                                   borrowed_bit, left_bit),
                                        left_bit)

\* for (; bit; --bit_no, bit >>= 1) of truncate
RECURSIVE DeconstructReads(_, _, _, _, _)
DeconstructReads(ars, splitting, to_remain, bit_no, bit) ==
  IF bit = 0 THEN {}
  ELSE {<<splitting, bit_no + 1>>} \cup
       DeconstructReads(ars,
                        IF BitAnd(to_remain, bit) # 0 THEN Rhs(ars, splitting)
                        ELSE Lhs(ars, splitting),
                        to_remain, bit_no - 1, bit \div 2)

\* tree_stack_base::truncate: the handles it reads through
truncate_reads(ars, trs, sz, new_size) ==
  LET to_remove == sz - new_size
      on_right == compute_association(sz, to_remove)
      on_left == to_remove - on_right
  IN IF on_left = 0 THEN {}
     ELSE LET to_deconstruct == countr_zero(sz - on_right)
          IN DeconstructReads(ars, At(trs, to_deconstruct),
                              the_bit(to_deconstruct) - on_left,
                              to_deconstruct - 1, the_bit(to_deconstruct - 1))

\* ------------------------------------------------ per-tree iterators alone

\* A perfect tree over `leaves` (2^b of them), interned bottom-up.
RECURSIVE BuildPerfect(_, _, _)
BuildPerfect(ars, a, leaves) ==
  IF Len(leaves) = 1 THEN [h |-> hide_in_pointer(leaves[1]), ars |-> ars]
  ELSE LET half == Len(leaves) \div 2
           l == BuildPerfect(ars, a, SubSeq(leaves, 1, half))
           r == BuildPerfect(l.ars, a, SubSeq(leaves, half + 1, Len(leaves)))
       IN intern(r.ars, a, l.h, r.h)

\* What a read past the end of the iterator's stack can yield: null, the
\* address of some node, or a value that is no handle at all.
JunkHandles == {nullptr, Wild} \cup {e.addr : e \in AllNodes(arenas)}

\* node::iterator it(bit, root, idx) over a tree of 2^bit leaves
IterNew(bit, leaves, idx) ==
  /\ iter.kind = "none"
  /\ LET t == BuildPerfect(arenas, StackArena, leaves)
         it == node_iterator(t.ars, bit, t.h, idx)
     IN /\ arenas' = t.ars
        /\ iter' = [kind |-> "node", op |-> "new", by |-> idx, root |-> t.h,
                    it |-> it, ret |-> it, prev |-> it, clean |-> TRUE,
                    steps |-> 0]
  /\ UNCHANGED <<trees, size, values, last, ops, calls, built, shared>>

\* The iterator after one of its operators moved it from `it` to `moved`.
IterAfter(op, by, moved, ret) ==
  [iter EXCEPT !.op = op, !.by = by, !.it = moved, !.ret = ret, !.prev = iter.it,
               !.clean = iter.clean /\ moved.idx < node_iterator_size(moved),
               !.steps = @ + 1]

\* it += by (++it is by = 1, --it is by = -1, it -= d is by = -d)
IterMove(by, junk) ==
  /\ iter.kind = "node" /\ iter.steps < MaxOps
  /\ LET moved == move_by(arenas, iter.it, by, junk)
     IN iter' = IterAfter("move", by, moved, moved)
  /\ UNCHANGED <<arenas, trees, size, values, last, ops, calls, built, shared>>

\* it--: iterator cp = *this; ++*this; return cp;
IterPostDec(junk) ==
  /\ iter.kind = "node" /\ iter.steps < MaxOps
  /\ iter' = IterAfter("postdec", 0 - 1, move_by(arenas, iter.it, 1, junk), iter.it)
  /\ UNCHANGED <<arenas, trees, size, values, last, ops, calls, built, shared>>

\* it++: iterator cp = *this; ++*this; return cp;
IterPostInc(junk) ==
  /\ iter.kind = "node" /\ iter.steps < MaxOps
  /\ iter' = IterAfter("postinc", 1, move_by(arenas, iter.it, 1, junk), iter.it)
  /\ UNCHANGED <<arenas, trees, size, values, last, ops, calls, built, shared>>

NextIter ==
  \/ \E bit \in 0 .. MaxBit : \E leaves \in SeqsOfLen(the_bit(bit)) :
       \E idx \in 0 .. the_bit(bit) - 1 : IterNew(bit, leaves, idx)
  \/ \E by \in (0 - MaxBy) .. MaxBy : \E junk \in JunkHandles :
       IterMove(by, junk)
  \/ \E junk \in JunkHandles : IterPostDec(junk)
  \/ \E junk \in JunkHandles : IterPostInc(junk)

SpecIter == Init /\ [][NextIter]_vars


\* ------------------------------------------- reverse iterators of a stack

\* auto it = stk.rbegin();
RIterBegin ==
  /\ iter.kind = "none"
  /\ LET it == rbegin(arenas, trees, size)
     IN iter' = [kind |-> "rev", op |-> "rbegin", it |-> it, ret |-> it,
                 prev |-> it, steps |-> 0]
  /\ UNCHANGED <<arenas, trees, size, values, last, ops, calls, built, shared>>

\* ++it;
RIterInc ==
  /\ iter.kind = "rev" /\ iter.steps < MaxSize
  /\ LET next == r_iterator_inc(arenas, trees, iter.it)
     IN iter' = [iter EXCEPT !.op = "preinc", !.it = next, !.ret = next,
                             !.prev = iter.it, !.steps = @ + 1]
  /\ UNCHANGED <<arenas, trees, size, values, last, ops, calls, built, shared>>

\* it++: r_iterator cp = *this; ++cp; return cp;
RIterPostInc ==
  /\ iter.kind = "rev" /\ iter.steps < MaxSize
  /\ iter' = [iter EXCEPT !.op = "postinc",
                          !.ret = r_iterator_inc(arenas, trees, iter.it),
                          !.prev = iter.it, !.steps = @ + 1]
  /\ UNCHANGED <<arenas, trees, size, values, last, ops, calls, built, shared>>

\* The stack is built first; it is not changed while an iterator is alive.
NextRIter ==
  \/ iter.kind = "none" /\ \E s \in Strings : DoAppend(s)
  \/ RIterBegin
  \/ RIterInc
  \/ RIterPostInc

SpecRIter == Init /\ [][NextRIter]_vars


\* ------------------------------------------- loop iterations of has_suffix

\* std::equal over the whole of trees instead of split.right
RightEqualWorkWhole(right, trs) == Len(trs)

\* Slot comparisons std::equal makes: it stops after the first mismatch.
RECURSIVE RightEqualWork(_, _)
RightEqualWork(right, trs) ==
  IF right = <<>> THEN 0
  ELSE IF Head(right) # Head(trs) THEN 1
  ELSE 1 + RightEqualWork(Tail(right), Tail(trs))

\* Iterations of while (borrowed_bit > left_bit)
RECURSIVE BorrowWalkWork(_, _)
BorrowWalkWork(borrowed_bit, left_bit) ==
  IF borrowed_bit > left_bit THEN 1 + BorrowWalkWork(borrowed_bit - 1, left_bit)
  ELSE 0

\* Iterations of for (; left_bit; --left_bit)
RECURSIVE LeftCompareWork(_, _, _, _, _)
LeftCompareWork(ars, left, on_left, borrowed, left_bit) ==
  IF left_bit = 0 THEN 0
  ELSE IF BitAnd(on_left, the_bit(left_bit - 1)) # 0
       THEN IF Rhs(ars, borrowed) # At(left, left_bit - 1)
            THEN 1
            ELSE 1 + LeftCompareWork(ars, left, on_left, Lhs(ars, borrowed), left_bit - 1)
       ELSE 1 + LeftCompareWork(ars, left, on_left, Rhs(ars, borrowed), left_bit - 1)

\* Loop iterations of one has_suffix call: [right, left]
has_suffix_work(ars, trs, sz, itree) ==
  IF sz < idx_size(itree) \/ idx_empty(itree) THEN [right |-> 0, left |-> 0]
  ELSE LET on_right == compute_association(sz, idx_size(itree))
           on_left == idx_size(itree) - on_right
           split == association(itree, on_right)
           right == RightEqualWork(split.right, trs)
       IN IF ~RightEqual(split.right, trs) \/ on_left = 0
          THEN [right |-> right, left |-> 0]
          ELSE LET borrowed_bit == countr_zero(sz - on_right)
                   left_bit == Len(split.left)
               IN [right |-> right,
                   left |-> BorrowWalkWork(borrowed_bit, left_bit)
                            + LeftCompareWork(ars, split.left, on_left,
                                              BorrowWalk(ars, At(trs, borrowed_bit),
                                                         borrowed_bit, left_bit),
                                              left_bit)]


\* ------------------------------------------- two stacks sharing one arena

\* Stack `who` is now `st`, after the operation `op` with these results.
SharedStep(who, st, op, res, solo) ==
  shared' = [stacks |-> [shared.stacks EXCEPT ![who] = st], op |-> op,
             who |-> who, res |-> res, solo |-> solo,
             steps |-> shared.steps + 1]

\* append with the result stored in both stacks, as if they shared `trees`
SharedAppendBoth(who, s) ==
  /\ shared.steps < MaxShared
  /\ shared.stacks[who].size + Len(s) <= MaxSize
  /\ LET st == shared.stacks[who]
         ix == indexed_string_over(arenas, StackArena, s)
         r == append(ix.ars, StackArena, st.trees, st.size, ix.assocs)
         six == indexed_string_over(st.soloArs, 1, s)
         sr == append(six.ars, 1, st.soloTrees, st.soloSize, six.assocs)
         other == shared.stacks[3 - who]
     IN /\ arenas' = r.ars
        /\ shared' = [stacks |->
                        [shared.stacks EXCEPT
                           ![who] = [trees |-> r.trees, size |-> r.size,
                                     soloArs |-> sr.ars, soloTrees |-> sr.trees,
                                     soloSize |-> sr.size],
                           ![3 - who] = [other EXCEPT !.trees = r.trees,
                                                      !.size = r.size]],
                      op |-> "append", who |-> who, res |-> TRUE, solo |-> TRUE,
                      steps |-> shared.steps + 1]
  /\ UNCHANGED <<trees, size, values, last, ops, calls, built, iter>>

\* stacks[who].append(string(arena, s)), and the same on its twin
SharedAppend(who, s) ==
  /\ shared.steps < MaxShared
  /\ shared.stacks[who].size + Len(s) <= MaxSize
  /\ \E st \in {shared.stacks[who]} :
       \E ix \in {indexed_string_over(arenas, StackArena, s)} :
         \E six \in {indexed_string_over(st.soloArs, 1, s)} :
           \E r \in {append(ix.ars, StackArena, st.trees, st.size, ix.assocs)} :
             \E sr \in {append(six.ars, 1, st.soloTrees, st.soloSize, six.assocs)} :
               /\ arenas' = r.ars
               /\ SharedStep(who, [trees |-> r.trees, size |-> r.size,
                                   soloArs |-> sr.ars, soloTrees |-> sr.trees,
                                   soloSize |-> sr.size],
                             "append", TRUE, TRUE)
  /\ UNCHANGED <<trees, size, values, last, ops, calls, built, iter>>

\* A stack and its twin after truncate or pop returned r and sr.
AfterCut(st, r, sr) ==
  [st EXCEPT !.trees = r.trees, !.size = r.size,
             !.soloTrees = sr.trees, !.soloSize = sr.size]

\* stacks[who].truncate(k), and the same on its twin
SharedTruncate(who, k) ==
  /\ shared.steps < MaxShared
  /\ k <= shared.stacks[who].size
  /\ \E st \in {shared.stacks[who]} :
       \E r \in {truncate(arenas, st.trees, st.size, k)} :
         \E sr \in {truncate(st.soloArs, st.soloTrees, st.soloSize, k)} :
           SharedStep(who, AfterCut(st, r, sr), "truncate", TRUE, TRUE)
  /\ UNCHANGED <<arenas, trees, size, values, last, ops, calls, built, iter>>

\* stacks[who].pop(k), and the same on its twin
SharedPop(who, k) ==
  /\ shared.steps < MaxShared
  /\ k <= shared.stacks[who].size + 1
  /\ \E st \in {shared.stacks[who]} :
       \E r \in {pop(arenas, st.trees, st.size, k)} :
         \E sr \in {pop(st.soloArs, st.soloTrees, st.soloSize, k)} :
           SharedStep(who, AfterCut(st, r, sr), "pop", TRUE, TRUE)
  /\ UNCHANGED <<arenas, trees, size, values, last, ops, calls, built, iter>>

\* has_suffix on a stack and on its twin, given the two indexed strings.
AfterQuery(who, st, ix, six) ==
  /\ arenas' = ix.ars
  /\ SharedStep(who, [st EXCEPT !.soloArs = six.ars], "has_suffix",
                has_suffix(ix.ars, st.trees, st.size, ix.assocs),
                has_suffix(six.ars, st.soloTrees, st.soloSize, six.assocs))

\* stacks[who].has_suffix(string(arena, s)), and the same on its twin
SharedHasSuffix(who, s) ==
  /\ shared.steps < MaxShared
  /\ \E st \in {shared.stacks[who]} :
       \E ix \in {indexed_string_over(arenas, StackArena, s)} :
         \E six \in {indexed_string_over(st.soloArs, 1, s)} :
           AfterQuery(who, st, ix, six)
  /\ UNCHANGED <<trees, size, values, last, ops, calls, built, iter>>

\* The leaf sequences the two stacks are driven with.
SharedStrings == UNION {SeqsOfLen(n) : n \in 0 .. MaxLen - 1}

NextShared ==
  \E who \in 1 .. 2 :
    \/ \E s \in SharedStrings : SharedAppend(who, s)
    \/ \E k \in 0 .. MaxSize : SharedTruncate(who, k)
    \/ \E k \in 0 .. MaxSize + 1 : SharedPop(who, k)
    \/ \E s \in SharedStrings : SharedHasSuffix(who, s)

SpecShared == Init /\ [][NextShared]_vars


\* ------------------------------------------------- what a stack denotes
\* The leaves of the tree `h` of 2^b leaves, left to right.
RECURSIVE Flatten(_, _, _)
Flatten(ars, h, b) ==
  IF b = 0 THEN <<find_in_pointer(h)>>
  ELSE Flatten(ars, Lhs(ars, h), b - 1) \o Flatten(ars, Rhs(ars, h), b - 1)

\* `h` is a perfect binary tree of exactly 2^b leaves.
RECURSIVE IsPerfect(_, _, _)
IsPerfect(ars, h, b) ==
  IF b = 0 THEN h \in Leaves
  ELSE /\ IsNode(ars, h)
       /\ IsPerfect(ars, Lhs(ars, h), b - 1)
       /\ IsPerfect(ars, Rhs(ars, h), b - 1)

BitIsSet(n, b) == (n \div the_bit(b)) % 2 = 1

\* The trees of the set bits of sz, largest first, flattened and concatenated.
RECURSIVE Contents(_, _, _, _)
Contents(ars, trs, sz, b) ==
  IF b < 0 THEN <<>>
  ELSE (IF BitIsSet(sz, b) THEN Flatten(ars, At(trs, b), b) ELSE <<>>)
       \o Contents(ars, trs, sz, b - 1)

TopOf(vals, m) == SubSeq(vals, Len(vals) - m + 1, Len(vals))

Min(x, y) == IF x < y THEN x ELSE y

\* ---------------------------------------------------------------- claims

\* C1 (suffix soundness): whenever has_suffix has just been called with the
\* index of a leaf sequence s built through the stack's arena, it returned
\* true exactly when the stack holds at least |s| leaves and its top-most
\* |s| leaves equal s element-wise.
C1_SuffixSoundness ==
  last.op = "has_suffix" =>
    (last.res <=> (size >= Len(last.s) /\ TopOf(values, Len(last.s)) = last.s))

\* C1 witness: a true answer that needed the borrow walk (size 4, |s| = 3,
\* so nothing matches on the right and all of s is compared inside the
\* tree of 4 leaves), on a sequence holding the leaf 0.
C1_Witness ==
  /\ last.op = "has_suffix" /\ last.res
  /\ size = 4 /\ Len(last.s) = 3 /\ last.s[1] = 0

\* C2 (oracle equivalence): after every operation the tree stack and the
\* naive stack driven by the same operations agree on size(), on the
\* has_suffix result, and on the leaves yielded by reverse iteration.
C2_OracleEquivalence ==
  /\ size = Len(values)
  /\ (last.op = "has_suffix" => last.res = last.nres)
  /\ ReverseContents(arenas, trees, size) = Reverse(values)

\* C2 witness: a pop that split a tree left a stack of 3 out of one of 5+.
C2_Witness ==
  /\ last.op = "pop" /\ last.preSize >= 5 /\ size = 3 /\ values[3] = 0

\* C3 (length agreement): append(idx) takes size() from n to n + idx.size(),
\* truncate(n') with n' <= n to n', pop(k) to n - min(k, n), and has_suffix
\* leaves it unchanged.
C3_LengthAgreement ==
  [][/\ (last'.op = "append" => size' = size + Len(last'.s))
     /\ (last'.op = "truncate" => size' = last'.k)
     /\ (last'.op = "pop" => size' = size - Min(last'.k, size))
     /\ (last'.op = "has_suffix" => size' = size)]_vars

\* C3 witness: a pop of more leaves than the stack held.
C3_Witness == last.op = "pop" /\ last.k > last.preSize /\ last.preSize >= 3

\* C4 (bit decomposition): for every bit position b, trees[b] is a non-null
\* handle if and only if bit b of size() is set.
C4_BitDecomposition ==
  \A b \in 0 .. bit_width(MaxSize) :
    (b < Len(trees) /\ At(trees, b) # nullptr) <=> BitIsSet(size, b)

\* C5 (length decomposition): trees has exactly bit_width(n) slots, the tree
\* at each set bit b of n is a perfect binary tree of 2^b leaves, and the
\* leaves of those trees, largest position first, are the stack contents
\* from bottom to top.
C5_LengthDecomposition ==
  /\ Len(trees) = bit_width(size)
  /\ \A b \in 0 .. Len(trees) - 1 :
       BitIsSet(size, b) => IsPerfect(arenas, At(trees, b), b)
  /\ Contents(arenas, trees, size, Len(trees) - 1) = values

\* C5 witness: three trees (4 + 2 + 1 leaves) built by a carrying append.
C5_Witness == size = 7 /\ last.op = "append" /\ last.preSize = 5

\* C6 (push/pop identity): append(index(v)) followed by pop(|v|) restores the
\* size and the trees list (same length, the identical handle or null in
\* every slot) that the stack had before the append.
C6_PushPopIdentity ==
  [][(last.op = "append" /\ last'.op = "pop" /\ last'.k = Len(last.s))
       => (size' = last.preSize /\ trees' = last.preTrees)]_vars

\* C6 witness: the pop undid an append of 3 leaves onto a stack of 3, which
\* had merged the two low trees into one of 4 leaves.
C6_Witness ==
  /\ last.op = "pop" /\ last.k = 3 /\ last.preSize = 6 /\ ops = 3
  /\ size = 3 /\ values = <<0, 1, 0>>

\* C7 (round trip): indexing v, appending it to an empty stack, collecting
\* the reverse iteration from rbegin() to rend() and reversing it yields v.
C7_RoundTrip ==
  (last.op = "append" /\ last.preSize = 0) =>
    to_vector(arenas, trees, size) = last.s

\* C7 witness: a sequence of 3 leaves (two trees) went round.
C7_Witness ==
  /\ last.op = "append" /\ last.preSize = 0 /\ last.s = <<0, 1, 0>>
  /\ to_vector(arenas, trees, size) = <<0, 1, 0>>

\* ------------------------------------------------- arenas on their own
\* A second specification drives node_arena and indexed_string directly:
\* arenas are created (with or without a parent), pairs are interned and
\* leaf sequences are indexed.  A parent arena is not mutated once it has
\* a child, as the arena's users are required to ensure.

HasChild(ars, a) == \E c \in 1 .. Len(ars) : ars[c].parent = a

\* The handles a caller can hold: leaves (HashMul among them, so that two
\* different pairs can have one hash value) and the nodes interned so far.
Operands(ars) == Leaves \cup {HashMul} \cup {e.addr : e \in AllNodes(ars)}

\* node_arena child(&parent);  /  node_arena root;
CreateArena(p) ==
  /\ Len(arenas) < MaxArenas
  /\ p <= Len(arenas)
  /\ arenas' = Append(arenas, NewArena(p))
  /\ UNCHANGED <<trees, size, values, last, ops, calls, built, iter, shared>>

\* arena.intern(lhs, rhs)
DoIntern(a, lhs, rhs) ==
  /\ Len(calls) + Len(built) < MaxInterns
  /\ ~HasChild(arenas, a)
  /\ LET r == intern(arenas, a, lhs, rhs)
     IN /\ arenas' = r.ars
        /\ calls' = Append(calls, [a |-> a, lhs |-> lhs, rhs |-> rhs, h |-> r.h])
  /\ UNCHANGED <<trees, size, values, last, ops, built, iter, shared>>

\* indexed_string_over<int> str(arena, s)
DoIndex(a, s) ==
  /\ Len(calls) + Len(built) < MaxInterns
  /\ ~HasChild(arenas, a)
  /\ LET ix == indexed_string_over(arenas, a, s)
     IN /\ arenas' = ix.ars
        /\ built' = Append(built, [a |-> a, s |-> s, assocs |-> ix.assocs,
                                   at |-> Len(calls)])
  /\ UNCHANGED <<trees, size, values, last, ops, calls, iter, shared>>

NextArena ==
  \/ \E p \in 0 .. MaxArenas : CreateArena(p)
  \/ \E a \in 1 .. Len(arenas) : \E lhs, rhs \in Operands(arenas) : DoIntern(a, lhs, rhs)

SpecArena == Init /\ [][NextArena]_vars

NextIndex ==
  \/ \E lhs, rhs \in Operands(arenas) : DoIntern(StackArena, lhs, rhs)
  \/ \E s \in Strings : DoIndex(StackArena, s)

SpecIndex == Init /\ [][NextIndex]_vars

\* indexed_string_over<int> str(x): no arena is involved (a = 0)
DoIndexLeaf(x) ==
  /\ Len(calls) + Len(built) < MaxInterns
  /\ built' = Append(built, [a |-> 0, s |-> <<x>>,
                             assocs |-> indexed_string_over_leaf(x),
                             at |-> Len(calls)])
  /\ UNCHANGED <<arenas, trees, size, values, last, ops, calls, iter, shared>>

NextLeaf ==
  \/ \E s \in Strings : DoIndex(StackArena, s)
  \/ \E x \in Leaves : DoIndexLeaf(x)

SpecLeaf == Init /\ [][NextLeaf]_vars

\* indexed_string str;  (assocs is empty, no leaves, no arena)
DoIndexDefault ==
  /\ Len(calls) + Len(built) < MaxInterns
  /\ built' = Append(built, [a |-> 0, s |-> <<>>,
                             assocs |-> indexed_string_default,
                             at |-> Len(calls)])
  /\ UNCHANGED <<arenas, trees, size, values, last, ops, calls, iter, shared>>

\* What append can leave behind when handed a default-constructed
\* indexed_string.  itree.empty() is false (size() is assocs.size() - 1 on
\* an empty vector), so append goes on: compute_association shifts 1 by
\* bit_width(size_t(-1)) = 64 bits and association() indexes an empty
\* vector, both undefined.  The stack is then left as it was, or with any
\* size and any slots: no slots or bit_width(MaxSize) slots that are no
\* handles, and size 0 or MaxSize, stand for these.
AppendDefaultOutcomes ==
  {[trees |-> trees, size |-> size]}
    \cup {[trees |-> Fill(k, Wild), size |-> sz] :
            k \in {0, bit_width(MaxSize)}, sz \in {0, MaxSize}}

\* stk.append(indexed_string());
DoAppendDefault(out) ==
  /\ ops < MaxOps
  /\ ops' = ops + 1
  /\ \E i \in 1 .. Len(built) : built[i].assocs = indexed_string_default
  /\ ~idx_empty(indexed_string_default)
  /\ trees' = out.trees
  /\ size' = out.size
  /\ last' = [NoOp EXCEPT !.op = "append_default", !.preSize = size,
                          !.preTrees = trees, !.idx = indexed_string_default]
  /\ UNCHANGED <<arenas, values, calls, built, iter, shared>>

NextDefault ==
  \/ \E s \in Strings : DoIndex(StackArena, s)
  \/ \E x \in Leaves : DoIndexLeaf(x)
  \/ DoIndexDefault
  \/ \E out \in AppendDefaultOutcomes : DoAppendDefault(out)

SpecDefault == Init /\ [][NextDefault]_vars

\* The arenas reachable from `a` through parent pointers, `a` included.
RECURSIVE Chain(_, _)
Chain(ars, a) == IF a = 0 THEN {} ELSE {a} \cup Chain(ars, ars[a].parent)

ChainNodes(ars, a) ==
  UNION {{ars[c].nodes[i] : i \in 1 .. Len(ars[c].nodes)} : c \in Chain(ars, a)}

\* C8 (intern canonicity in one arena): for an arena without parent, two
\* intern calls return the same handle if and only if they were given the
\* same lhs and the same rhs, whatever was interned in between and whether
\* or not the hash values of the pairs collide.
C8_InternCanonicity ==
  \A i, j \in 1 .. Len(calls) :
    (calls[i].a = calls[j].a /\ arenas[calls[i].a].parent = 0) =>
      ((calls[i].h = calls[j].h) <=>
         (calls[i].lhs = calls[j].lhs /\ calls[i].rhs = calls[j].rhs))

\* C8 witness: on a parentless arena a pair was interned, then a different
\* pair with the same hash value, then the first pair again.
C8_Witness ==
  /\ Len(calls) = 3
  /\ \A i \in 1 .. 3 : calls[i].a = 1
  /\ calls[1].lhs = calls[3].lhs /\ calls[1].rhs = calls[3].rhs
  /\ calls[1].lhs # calls[2].lhs
  /\ Hash(calls[1].lhs, calls[1].rhs) = Hash(calls[2].lhs, calls[2].rhs)

\* C9 (canonicity across the ancestor chain): no two nodes held anywhere in
\* an arena and its ancestors have the same (lhs, rhs) children.
C9_ChainCanonicity ==
  \A a \in 1 .. Len(arenas) :
    \A x, y \in ChainNodes(arenas, a) :
      (x.lhs = y.lhs /\ x.rhs = y.rhs) => x.addr = y.addr

\* C10 (indexing is canonical): two indexed strings built through the same
\* arena from element-wise equal leaf sequences have identical assocs
\* tables, whatever else was interned between the two constructions.
C10_IndexCanonical ==
  \A i, j \in 1 .. Len(built) :
    (built[i].a = built[j].a /\ built[i].s = built[j].s) =>
      built[i].assocs = built[j].assocs

\* C10 witness: a sequence of 3 leaves was indexed twice through one arena
\* with an intern call on that arena in between.
C10_Witness ==
  /\ Len(built) = 2 /\ Len(calls) = 1
  /\ built[1].a = built[2].a /\ calls[1].a = built[1].a
  /\ built[1].s = built[2].s /\ Len(built[1].s) = 3
  /\ built[1].at = 0 /\ built[2].at = 1

\* --------------------------------------------------- truncate, pop, back

\* C11 (truncate keeps the bottom): after truncate(n') with n' <= n the
\* leaves held by the trees are exactly the first n' leaves that the trees
\* held before, size() is n', and has_suffix of the index of those n'
\* leaves is true.
C11_TruncateKeepsBottom ==
  last.op = "truncate" =>
    LET before == Contents(arenas, last.preTrees, last.preSize,
                           Len(last.preTrees) - 1)
        after == Contents(arenas, trees, size, Len(trees) - 1)
        ix == indexed_string_over(arenas, StackArena, after)
    IN /\ after = SubSeq(before, 1, last.k)
       /\ size = last.k
       /\ has_suffix(ix.ars, trees, size, ix.assocs)

\* C11 witness: a stack of 6 or more leaves, grown by appends, was cut back
\* to its first 3 leaves, which took the tree of 4 leaves apart.
C11_Witness ==
  /\ last.op = "truncate" /\ last.k = 3 /\ last.preSize >= 6
  /\ values = <<0, 1, 1>>

\* C12 (truncate(0) returns to the initial state): after truncate(0) the
\* size is 0, trees has no slot, and reverse iteration yields nothing, as
\* for a freshly constructed stack.
C12_TruncateZero ==
  (last.op = "truncate" /\ last.k = 0) =>
    /\ size = 0
    /\ trees = <<>>
    /\ ReverseContents(arenas, trees, size) = <<>>
    /\ r_iterator_eq(rbegin(arenas, trees, size), rend(arenas, trees, size))

\* C12 witness: truncate(0) emptied a stack of 7 leaves (three trees).
C12_Witness == last.op = "truncate" /\ last.k = 0 /\ last.preSize = 7 /\ size = 0

\* C13 (has_suffix edge cases): has_suffix returns false whenever the stack
\* holds fewer leaves than the indexed sequence, and does so with no tree
\* slot to read (the same call on a trees list without slots also returns
\* false); it returns true for the index of the empty leaf list.
C13_HasSuffixEdges ==
  last.op = "has_suffix" =>
    /\ (size < idx_size(last.idx) =>
          /\ ~last.res
          /\ ~has_suffix(arenas, <<>>, size, last.idx))
    /\ (last.s = <<>> => (idx_size(last.idx) = 0 /\ last.res))
    /\ (size = 0 => (last.res <=> last.s = <<>>))

\* C13 witness: a sequence of 3 leaves was looked up in a stack of 2.
C13_Witness ==
  last.op = "has_suffix" /\ size = 2 /\ Len(last.s) = 3 /\ ~last.res

\* C14 (pop saturates): pop(k) leaves exactly the size and trees that
\* truncate(n - min(k, n)) produces from the same state; the target is
\* never negative, and pop of more than n leaves empties the stack.
C14_PopSaturates ==
  last.op = "pop" =>
    LET target == last.preSize - Min(last.k, last.preSize)
        t == truncate(arenas, last.preTrees, last.preSize, target)
    IN /\ target >= 0
       /\ size = t.size /\ trees = t.trees /\ last.ok = t.ok
       /\ size = target
       /\ (last.k > last.preSize => (size = 0 /\ trees = <<>>))

\* C14 witness: pop(6) on a stack of 5 leaves.
C14_Witness ==
  last.op = "pop" /\ last.preSize = 5 /\ last.k = 6 /\ size = 0

\* C15 (back returns the top): on a stack that is not empty back() returns
\* the leaf pushed last among those still on the stack, reads inside
\* trees, and leaves size and trees as they were.
C15_BackIsTop ==
  (last.op = "back" /\ last.preSize > 0) =>
    /\ ~last.oob
    /\ last.val = values[Len(values)]
    /\ size = last.preSize /\ trees = last.preTrees

\* C15 witness: back() on a stack of 6 leaves, whose lowest tree has 2
\* leaves that differ, returned the right one.
C15_Witness ==
  /\ last.op = "back" /\ size = 6 /\ last.val = 1
  /\ values[5] = 0 /\ values[6] = 1

\* The tree (bit position) and the index in it of the j-th leaf from the
\* top of a stack of sz leaves: smallest tree first, highest index first.
RECURSIVE PlaceFromTop(_, _)
PlaceFromTop(sz, j) ==
  LET b == countr_zero(sz)
  IN IF j < the_bit(b) THEN [bit |-> b, idx |-> the_bit(b) - 1 - j]
     ELSE PlaceFromTop(sz - the_bit(b), j - the_bit(b))

\* C16 (reverse iteration): the iterator reached from rbegin() by j
\* pre-increments, j < n, differs from rend(), stands in the smallest tree
\* not yet exhausted at the highest index not yet visited, and yields the
\* leaf x_{n-1-j}; after exactly n increments it equals rend().
C16_ReverseIteration ==
  LET first == rbegin(arenas, trees, size)
      end == rend(arenas, trees, size)
  IN /\ \A j \in 0 .. size - 1 :
          LET it == r_iterator_advance(arenas, trees, first, j)
          IN /\ ~r_iterator_eq(it, end)
             /\ it.bit = PlaceFromTop(size, j).bit
             /\ it.nodes.idx = PlaceFromTop(size, j).idx
             /\ find_in_pointer(node_iterator_deref(it.nodes)) = values[size - j]
     /\ r_iterator_eq(r_iterator_advance(arenas, trees, first, size), end)

\* C16 witness: a stack of 7 leaves (trees of 1, 2 and 4 leaves).
C16_Witness ==
  /\ size = 7 /\ values = <<0, 0, 1, 0, 1, 1, 0>>
  /\ r_iterator_advance(arenas, trees, rbegin(arenas, trees, size), 3).bit = 2

\* C17 (truncate is total): every truncate and every pop runs with each
\* assert(*my_iter) of its right phase holding.
C17_TruncateTotal ==
  last.op \in {"truncate", "pop"} => last.ok

\* C18 (append is total): every append runs with each assert(!*dst_iter)
\* of its right phase holding, and its carry loop stops at a slot inside
\* the resized trees list, below bit_width(n + L).
C18_AppendTotal ==
  last.op = "append" =>
    /\ last.ok
    /\ last.carry < bit_width(last.preSize + Len(last.s))
    /\ Len(trees) = bit_width(last.preSize + Len(last.s))
    /\ (last.carry >= 0 => At(trees, last.carry) # nullptr)

\* C18 witness: 3 leaves appended to a stack of 3: the carry merged the
\* trees of bits 0 and 1 into slot 2 and the right phase refilled slot 1.
C18_Witness ==
  /\ last.op = "append" /\ last.preSize = 3 /\ Len(last.s) = 3
  /\ last.carry = 2 /\ size = 6

\* C19 (failure atomicity of append): when an intern call made by append
\* throws, size() and every trees slot are what they were before the call.
C19_AppendAtomicity ==
  (last.op = "append" /\ last.thrown) =>
    (size = last.preSize /\ trees = last.preTrees)

\* C20 (precondition violations are caught): back() on an empty stack fails
\* an assertion, and does so before reading a trees slot out of bounds.
C20_PreconditionCaught ==
  (last.op = "back" /\ last.preSize = 0) => (~last.ok /\ ~last.oob)

\* ------------------------------------------------------- frame and arena

\* A read through a handle is sound when the handle is an interned node
\* that is a perfect tree of the size the code takes it for (2 or more).
SoundRead(ars, rd) ==
  rd[2] >= 1 /\ IsNode(ars, rd[1]) /\ IsPerfect(ars, rd[1], rd[2])

\* C21 (has_suffix is a pure query): a has_suffix call, whatever it
\* returns, leaves size and trees as they were, adds no node to the arena
\* beyond those the construction of its argument interned, leaves that
\* argument's table as built, and reads only through interned nodes (it
\* has no assertion; a mismatch is only the result false).
C21_HasSuffixPure ==
  [][last'.op = "has_suffix" =>
       LET ix == indexed_string_over(arenas, StackArena, last'.s)
       IN /\ trees' = trees /\ size' = size
          /\ arenas' = ix.ars
          /\ last'.idx = ix.assocs
          /\ last'.ok
          /\ \A rd \in has_suffix_reads(arenas', trees, size, ix.assocs) :
                SoundRead(arenas', rd)]_vars

\* C21 witness: has_suffix returned false on a mismatch found inside the
\* borrowed tree, on a stack of 4 leaves that stayed as it was.
C21_Witness ==
  /\ last.op = "has_suffix" /\ ~last.res /\ Len(last.s) = 3
  /\ size = 4 /\ last.preSize = 4 /\ trees = last.preTrees
  /\ TopOf(values, 2) = SubSeq(last.s, 2, 3)

\* C30 (the arena only grows, handles are stable): every step keeps every
\* arena's nodes, with their addresses and children, and only adds to
\* them; truncate, pop and back add nothing; a has_suffix step adds only
\* what the construction of its argument interns.
C30_ArenaGrows ==
  [][/\ Len(arenas') >= Len(arenas)
     /\ \A a \in 1 .. Len(arenas) :
          /\ Len(arenas'[a].nodes) >= Len(arenas[a].nodes)
          /\ SubSeq(arenas'[a].nodes, 1, Len(arenas[a].nodes)) = arenas[a].nodes
     /\ \A e \in AllNodes(arenas) : Deref(arenas', e.addr) = e
     /\ (last'.op \in {"truncate", "pop", "back"} => arenas' = arenas)
     /\ (last'.op = "has_suffix" =>
           arenas' = indexed_string_over(arenas, StackArena, last'.s).ars)]_vars

\* C30 witness: a truncate took a tree of 4 leaves apart in an arena of 3
\* or more nodes, all of which are still there.
C30_Witness ==
  /\ last.op = "truncate" /\ last.preSize = 4 /\ size = 3
  /\ Len(arenas[StackArena].nodes) >= 3

\* C22 (cross-arena comparison): with the index built through an arena
\* unrelated to the stack's, has_suffix returns false whenever the split it
\* compares holds a tree of 2 or more leaves (r >= 2 or l >= 2), even when
\* the top leaves equal s; and it never returns true when the stack's top
\* |s| leaves differ from s.
C22_CrossArena ==
  last.op = "has_suffix_cross" =>
    LET L == Len(last.s)
        r == compute_association(size, L)
        l == L - r
    IN /\ ((size >= L /\ (r >= 2 \/ l >= 2)) => ~last.res)
       /\ (last.res => (size >= L /\ TopOf(values, L) = last.s))

\* C22 witness: the top 3 leaves of a stack of 5 equal s, which was indexed
\* through the other arena, and has_suffix returned false.
C22_Witness ==
  /\ last.op = "has_suffix_cross" /\ ~last.res /\ last.nres
  /\ size = 5 /\ Len(last.s) = 3

\* ------------------------------------------------------ the association

\* The largest element of a non-empty set of numbers.
MaxOf(S) == CHOOSE x \in S : \A y \in S : y <= x

BorrowArithmetic(n, L) ==
  LET r == compute_association(n, L)
      l == L - r
  IN /\ r <= L
     /\ \E k \in {bit_width(L), bit_width(L) - 1} :
          r = n % the_bit(k) /\ l < the_bit(k)
     /\ (l > 0 =>
          /\ countr_zero(n - r) >= 1
          /\ countr_zero(n - r) >= bit_width(l)
          /\ BitIsSet(n, countr_zero(n - r)))

\* C24 (borrow arithmetic is safe): for all n >= L > 0, r =
\* compute_association(n, L) is at most L, equals n mod 2^k for k =
\* bit_width(L) or bit_width(L) - 1, and l = L - r is below 2^k; when l > 0
\* the borrowed position ctz(n - r) is at least max(1, bit_width(l)) and is
\* a set bit of n.  Every has_suffix, truncate and pop call made obeys this
\* arithmetic and reads lhs/rhs only through interned nodes that are
\* perfect trees of 2 or more leaves.
C24_BorrowSafe ==
  /\ \A n \in 1 .. MaxAssoc : \A L \in 1 .. n : BorrowArithmetic(n, L)
  /\ (last.op = "has_suffix" =>
        /\ ((size >= Len(last.s) /\ Len(last.s) > 0) =>
               BorrowArithmetic(size, Len(last.s)))
        /\ \A rd \in has_suffix_reads(arenas, trees, size, last.idx) :
              SoundRead(arenas, rd))
  /\ (last.op \in {"truncate", "pop"} =>
        /\ (last.preSize > size =>
               BorrowArithmetic(last.preSize, last.preSize - size))
        /\ \A rd \in truncate_reads(arenas, last.preTrees, last.preSize, size) :
              SoundRead(arenas, rd))

\* C24 witness: truncate(3) on a stack of 7 leaves borrowed from the tree
\* of 4 leaves (r = 3, l = 1, position 2) and read through its root.
C24_Witness ==
  /\ last.op = "truncate" /\ last.preSize = 7 /\ size = 3
  /\ truncate_reads(arenas, last.preTrees, last.preSize, size) # {}

\* ------------------------------------------------------- the split table

\* The leaves of the trees that `list` holds at the set bits of m, the tree
\* of the lowest set bit first.
RECURSIVE LeavesUp(_, _, _, _)
LeavesUp(ars, list, m, b) ==
  IF b >= bit_width(m) THEN <<>>
  ELSE (IF BitIsSet(m, b) THEN Flatten(ars, At(list, b), b) ELSE <<>>)
       \o LeavesUp(ars, list, m, b + 1)

\* `list` has a perfect tree of 2^b leaves at every set bit b of m.
HoldsSizes(ars, list, m) ==
  /\ Len(list) >= bit_width(m)
  /\ \A b \in 0 .. bit_width(m) - 1 :
        BitIsSet(m, b) => IsPerfect(ars, At(list, b), b)

\* `list` covers `leaves` as a left list (lowest tree first) ...
CoversLeft(ars, list, leaves) ==
  /\ HoldsSizes(ars, list, Len(leaves))
  /\ LeavesUp(ars, list, Len(leaves), 0) = leaves

\* ... or as a right list (lowest tree last).
CoversRight(ars, list, leaves) ==
  /\ HoldsSizes(ars, list, Len(leaves))
  /\ Contents(ars, list, Len(leaves), bit_width(Len(leaves)) - 1) = leaves

\* C25 as stated (split table layout by index): for an indexed sequence of
\* L >= 1 leaves, assocs[0].right and assocs[L].left are empty,
\* assocs[0].left and assocs[L].right cover all L leaves, and assocs[k].right
\* holds trees whose sizes are the set bits of k while assocs[k].left covers
\* the remaining L - k leaves.
C25_LayoutAsStated ==
  \A i \in 1 .. Len(built) :
    LET L == Len(built[i].s)
        assocs == built[i].assocs
    IN L >= 1 =>
         /\ At(assocs, 0).right = <<>> /\ At(assocs, L).left = <<>>
         /\ CoversLeft(arenas, At(assocs, 0).left, built[i].s)
         /\ CoversRight(arenas, At(assocs, L).right, built[i].s)
         /\ \A k \in 0 .. L :
               /\ HoldsSizes(arenas, At(assocs, k).right, k)
               /\ Len(At(assocs, k).right) = bit_width(k)
               /\ \/ CoversLeft(arenas, At(assocs, k).left, SubSeq(built[i].s, 1, L - k))
                  \/ CoversLeft(arenas, At(assocs, k).left, SubSeq(built[i].s, k + 1, L))

\* C25 amended (split table layout by index): for an indexed sequence of
\* L >= 1 leaves, assocs[0].left and assocs[L].right are empty,
\* assocs[0].right and assocs[L].left cover all L leaves, and assocs[k].left
\* holds trees whose sizes are the set bits of k, covering the first k
\* leaves, while assocs[k].right covers the remaining L - k leaves.
C25_Layout ==
  \A i \in 1 .. Len(built) :
    LET L == Len(built[i].s)
        assocs == built[i].assocs
    IN L >= 1 =>
         /\ At(assocs, 0).left = <<>> /\ At(assocs, L).right = <<>>
         /\ CoversRight(arenas, At(assocs, 0).right, built[i].s)
         /\ CoversLeft(arenas, At(assocs, L).left, built[i].s)
         /\ \A k \in 0 .. L :
               /\ CoversLeft(arenas, At(assocs, k).left, SubSeq(built[i].s, 1, k))
               /\ CoversRight(arenas, At(assocs, k).right, SubSeq(built[i].s, k + 1, L))

\* C25 witness: the sequence <<0, 1, 1>> was indexed, whose first k leaves
\* differ from its last k leaves for k = 1 and k = 2.
C25_Witness ==
  \E i \in 1 .. Len(built) :
    /\ built[i].s = <<0, 1, 1>>
    /\ Len(built[i].assocs) = 4

\* C26 (split lookup by suffix length): for an indexed sequence of L leaves
\* and every r in 0..L, association(r) has a right list holding perfect
\* trees at exactly the set bits of r, the tree at position b covering the
\* 2^b leaves that end r mod 2^b before the end, and a left list holding
\* perfect trees at the set bits of L - r, the tree at position b covering
\* the 2^b leaves that start at leaf (L - r) mod 2^b.
C26_Lookup ==
  \A i \in 1 .. Len(built) :
    LET L == Len(built[i].s)
        str == built[i].s
    IN \A r \in 0 .. L :
         LET sp == association(built[i].assocs, r)
             l == L - r
         IN /\ CoversRight(arenas, sp.right, SubSeq(str, L - r + 1, L))
            /\ CoversLeft(arenas, sp.left, SubSeq(str, 1, l))
            /\ \A b \in 0 .. bit_width(r) - 1 :
                  BitIsSet(r, b) =>
                    Flatten(arenas, At(sp.right, b), b) =
                      SubSeq(str, L - (r % the_bit(b)) - the_bit(b) + 1,
                                  L - (r % the_bit(b)))
            /\ \A b \in 0 .. bit_width(l) - 1 :
                  BitIsSet(l, b) =>
                    Flatten(arenas, At(sp.left, b), b) =
                      SubSeq(str, (l % the_bit(b)) + 1,
                                  (l % the_bit(b)) + the_bit(b))

\* C26 witness: <<0, 1, 1>> was indexed; association(1) has the leaf 1 on
\* the right and the tree of the first two leaves on the left.
C26_Witness ==
  \E i \in 1 .. Len(built) :
    /\ built[i].s = <<0, 1, 1>>
    /\ association(built[i].assocs, 1).right = <<hide_in_pointer(1)>>
    /\ Len(association(built[i].assocs, 1).left) = 2

\* C27 (split list lengths): in every split of an indexed sequence, the
\* left list, covering k leaves, has exactly bit_width(k) slots and the
\* right list, covering L - k leaves, exactly bit_width(L - k) slots, and
\* the slot of every clear bit holds the null handle.
C27_ListLengths ==
  \A i \in 1 .. Len(built) :
    LET L == Len(built[i].s)
    IN \A k \in 0 .. L :
         LET sp == At(built[i].assocs, k)
         IN /\ Len(sp.left) = bit_width(k)
            /\ Len(sp.right) = bit_width(L - k)
            /\ \A b \in 0 .. bit_width(k) - 1 :
                  ~BitIsSet(k, b) => At(sp.left, b) = nullptr
            /\ \A b \in 0 .. bit_width(L - k) - 1 :
                  ~BitIsSet(L - k, b) => At(sp.right, b) = nullptr

\* C27 witness: a sequence of 3 leaves was indexed; its split 2 | 1 has a
\* left list of two slots whose slot 0, a clear bit of 2, is null.
C27_Witness ==
  \E i \in 1 .. Len(built) :
    /\ Len(built[i].s) = 3
    /\ Len(At(built[i].assocs, 2).left) = 2
    /\ At(At(built[i].assocs, 2).left, 0) = nullptr
    /\ At(At(built[i].assocs, 2).left, 1) # nullptr

\* ------------------------------------------------------- the borrow walk

\* The last has_suffix call got as far as its borrow walk: the stack is at
\* least as long as the sequence, the right trees matched, and l > 0.
WalkReached ==
  /\ last.op = "has_suffix"
  /\ ~idx_empty(last.idx)
  /\ size >= idx_size(last.idx)
  /\ LET on_right == compute_association(size, idx_size(last.idx))
     IN /\ RightEqual(association(last.idx, on_right).right, trees)
        /\ idx_size(last.idx) - on_right > 0

\* The tree has_suffix borrows from, its level, and where the walk ends.
WalkBit == countr_zero(size - compute_association(size, idx_size(last.idx)))

WalkLeft ==
  idx_size(last.idx) - compute_association(size, idx_size(last.idx))

WalkEnd ==
  BorrowWalk(arenas, At(trees, WalkBit), WalkBit,
             Len(association(last.idx, idx_size(last.idx) - WalkLeft).left))

\* `h` is the rightmost subtree of 2^b leaves of the tree t of 2^tb leaves.
RightmostSubtree(ars, h, b, t, tb) ==
  /\ b >= 0 /\ b <= tb
  /\ IsPerfect(ars, h, b)
  /\ Flatten(ars, h, b) = TopOf(Flatten(ars, t, tb), the_bit(b))

\* C28 as stated (has_suffix borrow walk): when l = L - r > 0 the walk down
\* the rhs children of trees[borrowed_bit] stops at the rightmost subtree
\* of 2^(bit_width(l) - 1) leaves.
C28_WalkAsStated ==
  WalkReached =>
    RightmostSubtree(arenas, WalkEnd, bit_width(WalkLeft) - 1,
                     At(trees, WalkBit), WalkBit)

\* C28 amended (has_suffix borrow walk): when l = L - r > 0 the walk down
\* the rhs children of trees[borrowed_bit] stops at the rightmost subtree
\* of 2^bit_width(l) leaves, a node whose rhs the per-bit comparison then
\* reads; it descends while borrowed_bit > bit_width(l).
C28_Walk ==
  WalkReached =>
    /\ WalkBit >= bit_width(WalkLeft)
    /\ RightmostSubtree(arenas, WalkEnd, bit_width(WalkLeft),
                        At(trees, WalkBit), WalkBit)
    /\ IsNode(arenas, WalkEnd)

\* C28 witness: has_suffix of one leaf on a stack of 4 leaves (r = 0,
\* l = 1) walked from the tree of 4 leaves down one level and matched.
C28_Witness ==
  /\ WalkReached /\ last.res
  /\ size = 4 /\ idx_size(last.idx) = 1
  /\ WalkBit = 2 /\ WalkEnd # At(trees, 2)

\* ------------------------------------------------------ the carry of append

\* r = compute_association(n + L, L) of the last append.
CarryRight == compute_association(size, idx_size(last.idx))

\* The positions the carry loop of the last append looked at: from where
\* the supply loop left bit_no up to the slot the carry wrote.
CarryPositions ==
  append_carry_from(arenas, StackArena, last.preTrees, last.preSize, last.idx)
    .. last.carry

\* C29 as stated (append carry positions): every position the left-phase
\* carry clears, passes through or writes has a clear bit in
\* r = compute_association(n + L, L) and lies above the set bits of r.
C29_CarryAsStated ==
  (last.op = "append" /\ last.carry >= 0) =>
    \A b \in CarryPositions :
      ~BitIsSet(CarryRight, b) /\ b >= bit_width(CarryRight)

\* C29 amended (append carry positions): the position the left-phase carry
\* finally writes has a clear bit in r = compute_association(n + L, L) and
\* lies above the set bits of r; a position the carry empties on its way
\* held a tree of the old stack, may be a set bit of r, and is then empty
\* when the right phase writes the right tree of that bit into it.
C29_Carry ==
  (last.op = "append" /\ last.carry >= 0) =>
    /\ CarryPositions # {}
    /\ ~BitIsSet(CarryRight, last.carry)
    /\ last.carry >= bit_width(CarryRight)
    /\ last.ok
    /\ \A b \in CarryPositions \ {last.carry} :
          /\ BitIsSet(last.preSize, b)
          /\ BitIsSet(CarryRight, b) =>
                At(trees, b) = At(association(last.idx, CarryRight).right, b)
          /\ ~BitIsSet(CarryRight, b) => At(trees, b) = nullptr

\* C29 witness: 3 leaves were appended to a stack of 3 (r = 2, l = 1): the
\* carry emptied position 1, a set bit of r, and wrote position 2.
C29_Witness ==
  /\ last.op = "append" /\ last.preSize = 3 /\ size = 6
  /\ CarryRight = 2 /\ last.carry = 2
  /\ CarryPositions = {1, 2}

\* -------------------------------------------------- child and parent arena

\* The most recent direct intern call.
LastCall(cs) == cs[Len(cs)]

\* C32 (a child arena only reads its parent): an intern call on an arena
\* with a parent leaves the parent's node set as it was; when the pair is
\* already held by the immediate parent the call returns the parent's
\* handle and leaves the child's node set as it was too; and, parents not
\* being mutated while they have a child, no arena holds a node whose
\* (lhs, rhs) is also held by its immediate parent.
C32_ChildReadsParent ==
  [][/\ (Len(calls') = Len(calls) + 1 /\ arenas[LastCall(calls').a].parent # 0) =>
          LET c == LastCall(calls')
              p == arenas[c.a].parent
              found == Find(arenas[p].nodes, c.lhs, c.rhs)
          IN /\ arenas'[p] = arenas[p]
             /\ found # 0 =>
                   /\ c.h = arenas[p].nodes[found].addr
                   /\ arenas'[c.a] = arenas[c.a]
     /\ \A a \in 1 .. Len(arenas') :
          arenas'[a].parent # 0 =>
            \A i \in 1 .. Len(arenas'[a].nodes) :
              Find(arenas'[arenas'[a].parent].nodes,
                   arenas'[a].nodes[i].lhs, arenas'[a].nodes[i].rhs) = 0]_vars

\* C32 witness: a pair held by a parent arena was interned through its
\* child, which returned the parent's handle and holds no node of its own.
C32_Witness ==
  \E i \in 1 .. Len(calls) :
    LET p == arenas[calls[i].a].parent
    IN /\ p # 0
       /\ \E j \in 1 .. Len(arenas[p].nodes) : arenas[p].nodes[j].addr = calls[i].h
       /\ arenas[calls[i].a].nodes = <<>>

\* --------------------------------------------------- the per-tree iterator

\* C33 (per-tree iterator range): for an iterator over a tree of 2^b
\* leaves idx stays in [0, 2^b) after any sequence of moves, and a move
\* that would leave the range at either end sets the over flag and clamps
\* idx to that end.
C33_IteratorRange ==
  iter.kind = "node" =>
    /\ iter.it.idx >= 0 /\ iter.it.idx < node_iterator_size(iter.it)
    /\ (iter.op = "move" /\ iter.prev.idx + iter.by >= node_iterator_size(iter.it)) =>
          iter.it.over /\ iter.it.idx = node_iterator_size(iter.it) - 1
    /\ (iter.op = "move" /\ iter.prev.idx + iter.by < 0) =>
          iter.it.over /\ iter.it.idx = 0

\* The subtree of 2^i leaves containing position idx, found by descending
\* from `h`, a tree of 2^level leaves, along the bits of idx.
RECURSIVE SubtreeAt(_, _, _, _, _)
SubtreeAt(ars, h, idx, level, i) ==
  IF level <= i THEN h
  ELSE SubtreeAt(ars,
                 IF BitIsSet(idx, level - 1) THEN Rhs(ars, h) ELSE Lhs(ars, h),
                 idx, level - 1, i)

\* C34 (XOR repair equals naive descent): after construction at an index
\* of the tree and any moves that kept idx in [0, 2^b), the iterator yields
\* the leaf reached from the root along the bits of idx from bit b - 1
\* down to 0, and level i of its stack holds the subtree of 2^i leaves that
\* contains position idx.
C34_XorRepair ==
  (iter.kind = "node" /\ iter.clean) =>
    /\ Len(iter.it.stack) = iter.it.bit + 1
    /\ node_iterator_deref(iter.it) =
         SubtreeAt(arenas, iter.root, iter.it.idx, iter.it.bit, 0)
    /\ \A i \in 0 .. iter.it.bit :
          /\ At(iter.it.stack, i) =
               SubtreeAt(arenas, iter.root, iter.it.idx, iter.it.bit, i)
          /\ IsPerfect(arenas, At(iter.it.stack, i), i)

\* C34 witness: an iterator over the tree <<0, 1, 1, 0>> moved from index 1
\* to index 2, across the two halves, and later moved again.
C34_Witness ==
  /\ iter.kind = "node" /\ iter.clean /\ iter.steps >= 2
  /\ Flatten(arenas, iter.root, 2) = <<0, 1, 1, 0>> /\ iter.it.bit = 2
  /\ iter.op = "move" /\ iter.by = 0 - 2
  /\ iter.prev.idx = 2 /\ iter.it.idx = 0

\* C35 (per-tree iterator post-decrement): it-- at an index idx > 0 of the
\* tree moves the iterator one position backward and returns a copy of its
\* previous position.
C35_PostDecrement ==
  (/\ iter.kind = "node" /\ iter.op = "postdec"
   /\ iter.prev.idx > 0 /\ iter.prev.idx < node_iterator_size(iter.prev)) =>
    /\ iter.it.idx = iter.prev.idx - 1
    /\ node_iterator_deref(iter.it) =
         SubtreeAt(arenas, iter.root, iter.prev.idx - 1, iter.it.bit, 0)
    /\ iter.ret = iter.prev

\* C36 (reverse iterator post-increment): it++ on a reverse iterator that
\* is not at rend() advances `it` itself, leaving it as ++it would, and
\* returns a copy of its previous position.
C36_PostIncrement ==
  (/\ iter.kind = "rev" /\ iter.op = "postinc"
   /\ ~r_iterator_eq(iter.prev, rend(arenas, trees, size))) =>
    /\ iter.it = r_iterator_inc(arenas, trees, iter.prev)
    /\ iter.ret = iter.prev

\* C37 (logarithmic work of has_suffix): a has_suffix call on a stack of n
\* leaves with an indexed sequence of L leaves makes at most bit_width(L)
\* slot comparisons in its right phase and at most bit_width(n) child
\* descents in its left phase, at most bit_width(n) + bit_width(L) loop
\* iterations in all.
C37_LogWork ==
  last.op = "has_suffix" =>
    LET w == has_suffix_work(arenas, trees, size, last.idx)
    IN /\ w.right <= bit_width(idx_size(last.idx))
       /\ w.left <= bit_width(size)
       /\ w.right + w.left <= bit_width(size) + bit_width(idx_size(last.idx))

\* C37 witness: has_suffix of 2 leaves on a stack of 5 compared one right
\* slot and then went two levels down the borrowed tree of 4 leaves.
C37_Witness ==
  /\ last.op = "has_suffix" /\ last.res /\ size = 5 /\ Len(last.s) = 2
  /\ has_suffix_work(arenas, trees, size, last.idx) = [right |-> 1, left |-> 2]

\* C38 (single-leaf constructor equivalence): the indexed sequence built
\* directly from one leaf x has the assocs table
\* [({}, {x}), ({x}, {})] as (left, right) pairs, the same table as
\* index_from builds from the one-element list [x], and building it
\* interns nothing.
C38_LeafConstructor ==
  [][(Len(built') = Len(built) + 1 /\ built'[Len(built')].a = 0) =>
       LET b == built'[Len(built')]
           x == hide_in_pointer(b.s[1])
           viaList == indexed_string_over(arenas, StackArena, b.s)
       IN /\ Len(b.s) = 1
          /\ b.assocs = << [left |-> <<>>, right |-> <<x>>],
                           [left |-> <<x>>, right |-> <<>>] >>
          /\ b.assocs = viaList.assocs
          /\ viaList.ars = arenas
          /\ arenas' = arenas
          /\ \A j \in 1 .. Len(built) :
                built[j].s = b.s => built[j].assocs = b.assocs]_vars

\* C38 witness: the leaf 1 was indexed from the list [1] through the arena
\* and then directly by the single-leaf constructor.
C38_Witness ==
  /\ Len(built) = 2
  /\ built[1].a = StackArena /\ built[1].s = <<1>>
  /\ built[2].a = 0 /\ built[2].s = <<1>>

\* C39 (every indexed_string reports its leaf count): size() equals the
\* number of leaves the indexed_string was built from and empty() holds
\* exactly when that number is 0, a default-constructed one included, for
\* which size() is 0 (not a wrapped-around subtraction) and appending it
\* leaves the stack as it was.
C39_SizeIsLeafCount ==
  /\ \A i \in 1 .. Len(built) :
        /\ idx_size(built[i].assocs) = Len(built[i].s)
        /\ idx_empty(built[i].assocs) <=> Len(built[i].s) = 0
  /\ last.op = "append_default" => trees = last.preTrees /\ size = last.preSize

\* ---------------------------------------------------- shared arena

\* C31 (stacks sharing an arena are isolated): for two stacks attached to
\* one arena and any interleaving of whole append, truncate, pop and
\* has_suffix calls on them, each stack has the size and the contents of
\* its twin, which was given the same calls alone on an arena of its own,
\* and every has_suffix call returned what the twin's call returned.
C31_SharedArenaIsolation ==
  /\ \A who \in 1 .. 2 :
        LET st == shared.stacks[who]
        IN /\ st.size = st.soloSize
           /\ Contents(arenas, st.trees, st.size, bit_width(st.size) - 1)
                = Contents(st.soloArs, st.soloTrees, st.soloSize,
                           bit_width(st.soloSize) - 1)
  /\ shared.op = "has_suffix" => shared.res = shared.solo

\* C31 witness: both stacks are non-empty and hold a common node of the
\* shared arena, and a has_suffix on one of them has just returned true.
C31_Witness ==
  /\ shared.op = "has_suffix" /\ shared.res
  /\ shared.stacks[1].size >= 2 /\ shared.stacks[2].size >= 2
  /\ \E h \in {e.addr : e \in AllNodes(arenas)} :
        /\ \E b \in 1 .. Len(shared.stacks[1].trees) : shared.stacks[1].trees[b] = h
        /\ \E b \in 1 .. Len(shared.stacks[2].trees) : shared.stacks[2].trees[b] = h

====
